---------------------------- MODULE Spec2Model ----------------------------
(***************************************************************************)
(* mail-mcp: the email normalization core (quote detector, metadata        *)
(* extractor, message normalizer, archive-batch driver) and the indexing   *)
(* pipeline that consumes it.                                              *)
(*                                                                         *)
(* Text is a sequence of one-character strings.  None is Python's None.    *)
(***************************************************************************)
EXTENDS Integers, Sequences, FiniteSets, Bags, TLC

VARIABLES
    config_keys,      \* project keys in the configuration file
    maven_projects,   \* config.maven_projects: [_config, _jira_pattern]
    email_parser,     \* the EmailParser: [built, jira_pattern, quote_threshold]
    hash_seed,        \* the process's string-hash key
    run,              \* number of the process run
    inbox,            \* the raw messages at hand
    records,          \* records[i]: outcome of EmailParser.parse(inbox[i]) in this run
    previous,         \* previous[i]: its outcome in the previous run
    body_text,        \* a body text handed to the QuoteDetector
    quote_threshold,  \* QuoteDetector.quote_threshold of that detector, a ratio <<num, den>>
    analysis,         \* result of QuoteDetector.analyze(text)
    mostly,           \* result of QuoteDetector.is_mostly_quoted(text)
    effective_again,  \* extract_effective_content applied to analysis.body_effective
    done,             \* the QuoteDetector calls made so far
    mbox_exists,      \* whether the mbox file handed to index_mbox_file exists
    batch_size,       \* EmailIndexer.batch_size
    create_index,     \* the create_index argument of index_mbox_file
    index_exists,     \* whether the list's index exists in the backend
    index_docs,       \* the backend's index: document id -> document
    pc,               \* where index_mbox_file stands
    pos,              \* messages mbox.items() has handed to parse_file so far
    yielded,          \* the records parse_file has yielded, in order
    counts,           \* the counters local to parse_file and process_mbox_file
    log,              \* the log events of parse_file and process_mbox_file
    batch,            \* index_mbox_file's batch of documents
    stats,            \* index_mbox_file's stats, returned to its caller
    bulk_calls,       \* every bulk_index call so far: its documents and its outcome
    client_connected, \* whether ElasticsearchClient.connect() has been called
    call_arg,         \* the argument of a call of one extractor function
    call_out,         \* what that call returned
    called,           \* the function called, "" before the call
    client_closed,    \* whether ElasticsearchClient.close() has been called
    backend_up,       \* whether the backend answers requests
    requests,         \* the requests issued to the backend, in order
    tasks,            \* the ElasticsearchClient calls under way or returned: their frames
    directory,        \* the frame of EmailIndexer.index_directory
    archive_lookups,  \* the number of requests made to the Pony Mail API
    calls             \* the tool and resolver calls that have returned, in order

vars == <<config_keys, maven_projects, email_parser, hash_seed, run, inbox, records,
          previous, body_text, quote_threshold, analysis, mostly, effective_again, done,
          mbox_exists, batch_size, create_index, index_exists, index_docs, pc, pos,
          yielded, counts, log, batch, stats, bulk_calls, client_connected,
          call_arg, call_out, called, client_closed, backend_up, requests, tasks,
          directory, archive_lookups, calls>>

None == <<"<None>">>

-----------------------------------------------------------------------------
(* Small-set helpers *)

Min(S) == CHOOSE x \in S : \A y \in S : x <= y
Max(S) == CHOOSE x \in S : \A y \in S : x >= y

\* str.isspace / regex \s on the characters of the model
IsSpace(c) == c \in {" ", "\n", "\t", "\r"}

LowerOf == [A |-> "a", B |-> "b", C |-> "c", D |-> "d", E |-> "e", F |-> "f",
            G |-> "g", H |-> "h", I |-> "i", J |-> "j", K |-> "k", L |-> "l",
            M |-> "m", N |-> "n", O |-> "o", P |-> "p", Q |-> "q", R |-> "r",
            S |-> "s", T |-> "t", U |-> "u", V |-> "v", W |-> "w", X |-> "x",
            Y |-> "y", Z |-> "z"]

\* re.IGNORECASE / str.lower on one character
Lower(c) == IF c \in DOMAIN LowerOf THEN LowerOf[c] ELSE c

\* s[i:].startswith(w)
StartsWithAt(s, i, w) ==
    /\ i + Len(w) - 1 <= Len(s)
    /\ \A k \in 1..Len(w) : s[i + k - 1] = w[k]

\* the same under re.IGNORECASE; w is given in lower case
StartsWithAtI(s, i, w) ==
    /\ i + Len(w) - 1 <= Len(s)
    /\ \A k \in 1..Len(w) : Lower(s[i + k - 1]) = w[k]

\* str.rstrip()
RStrip(s) ==
    LET ns == {i \in 1..Len(s) : ~IsSpace(s[i])}
    IN  IF ns = {} THEN <<>> ELSE SubSeq(s, 1, Max(ns))

\* str.strip()
Strip(s) ==
    LET ns == {i \in 1..Len(s) : ~IsSpace(s[i])}
    IN  IF ns = {} THEN <<>> ELSE SubSeq(s, Min(ns), Max(ns))

\* str.split('\n'): always at least one element
RECURSIVE SplitFrom(_, _)
SplitFrom(s, i) ==
    LET nls == {j \in i..Len(s) : s[j] = "\n"}
    IN  IF nls = {} THEN <<SubSeq(s, i, Len(s))>>
        ELSE <<SubSeq(s, i, Min(nls) - 1)>> \o SplitFrom(s, Min(nls) + 1)

SplitLines(s) == SplitFrom(s, 1)

\* sep.join(lines)
RECURSIVE Join(_, _)
Join(lines, sep) ==
    IF lines = <<>> THEN <<>>
    ELSE IF Len(lines) = 1 THEN lines[1]
    ELSE lines[1] \o sep \o Join(Tail(lines), sep)

\* the elements of s at the positions in keep, in order
KeepAt(s, keep) ==
    [i \in 1..Cardinality(keep) |->
        s[CHOOSE p \in keep : Cardinality({q \in keep : q <= p}) = i]]

-----------------------------------------------------------------------------
(* extractors/quotes.py *)

\* every character of s[i..j] is whitespace
AllSpace(s, i, j) == \A k \in i..j : IsSpace(s[k])

\* every character of s[i..j] is matched by '.', that is, is no newline
NoNewline(s, i, j) == \A k \in i..j : s[k] # "\n"

\* QUOTE_PREFIX_PATTERN.match(line):  ^[\s]*[>|]+[\s]*
QUOTE_PREFIX_PATTERN(line) ==
    LET ns == {i \in 1..Len(line) : ~IsSpace(line[i])}
    IN  ns # {} /\ line[Min(ns)] \in {">", "|"}

Wrote == <<"w", "r", "o", "t", "e", ":">>

\* ATTRIBUTION_PATTERN.match(line):
\*   ^(?:On\s+.+?\s+wrote:|.+?\s+wrote:|From:.+?$|Sent:.+?$)   (IGNORECASE, MULTILINE)
ATTRIBUTION_PATTERN(line) ==
    LET n == Len(line)
        wrote == {d \in 3..n : StartsWithAtI(line, d, Wrote)}
    IN  \/ /\ StartsWithAtI(line, 1, <<"o", "n">>)
           /\ \E d \in wrote : \E c \in 5..(d - 1) : \E b \in 4..(c - 1) :
                /\ AllSpace(line, c, d - 1)
                /\ AllSpace(line, 3, b - 1)
                /\ NoNewline(line, b, c - 1)
        \/ \E d \in wrote : \E c \in 2..(d - 1) :
                /\ AllSpace(line, c, d - 1)
                /\ NoNewline(line, 1, c - 1)
        \/ /\ StartsWithAtI(line, 1, <<"f", "r", "o", "m", ":">>)
           /\ n >= 6 /\ line[6] # "\n"
        \/ /\ StartsWithAtI(line, 1, <<"s", "e", "n", "t", ":">>)
           /\ n >= 6 /\ line[6] # "\n"

\* QuoteDetector.is_quote_line
is_quote_line(line) ==
    IF Strip(line) = <<>> THEN FALSE
    ELSE IF QUOTE_PREFIX_PATTERN(line) THEN TRUE
    ELSE IF ATTRIBUTION_PATTERN(line) THEN TRUE
    ELSE FALSE

\* '\s*$' under MULTILINE from position i: only whitespace up to the end of
\* the line (or of the text)
RestOfLineBlank(s, i) ==
    LET nls == {j \in i..Len(s) : s[j] = "\n"}
        end == IF nls = {} THEN Len(s) ELSE Min(nls) - 1
    IN  AllSpace(s, i, end)

\* '^' under MULTILINE
AtLineStart(s, p) == p = 1 \/ s[p - 1] = "\n"

\* one alternative of SIGNATURE_MARKER_PATTERN matches at position p:
\*   ^--\s*$|^___+\s*$|^Best regards|^Regards|^Cheers|^Thanks  (MULTILINE, IGNORECASE)
SignatureMarkerAt(s, p) ==
    /\ AtLineStart(s, p)
    /\ \/ StartsWithAt(s, p, <<"-", "-">>) /\ RestOfLineBlank(s, p + 2)
       \/ /\ StartsWithAt(s, p, <<"_", "_", "_">>)
          /\ LET nu == {j \in p..Len(s) : s[j] # "_"}
                 after == IF nu = {} THEN Len(s) + 1 ELSE Min(nu)
             IN  RestOfLineBlank(s, after)
       \/ StartsWithAtI(s, p, <<"b", "e", "s", "t", " ", "r", "e", "g", "a", "r", "d", "s">>)
       \/ StartsWithAtI(s, p, <<"r", "e", "g", "a", "r", "d", "s">>)
       \/ StartsWithAtI(s, p, <<"c", "h", "e", "e", "r", "s">>)
       \/ StartsWithAtI(s, p, <<"t", "h", "a", "n", "k", "s">>)

\* SIGNATURE_MARKER_PATTERN.search(text): the set of match starts
SIGNATURE_MARKER_PATTERN(text) == {p \in 1..Len(text) : SignatureMarkerAt(text, p)}

\* QuoteDetector.remove_signature
remove_signature_at_last(text) ==
    LET match == SIGNATURE_MARKER_PATTERN(text)
    IN  IF match # {} THEN RStrip(SubSeq(text, 1, Max(match) - 1))
        ELSE text
remove_signature(text) ==
    LET match == SIGNATURE_MARKER_PATTERN(text)
    IN  IF match # {} THEN RStrip(SubSeq(text, 1, Min(match) - 1))
        ELSE text

\* the lines for which is_quote_line is false, in order
RECURSIVE EffectiveLines(_)
EffectiveLines(lines) ==
    IF lines = <<>> THEN <<>>
    ELSE (IF ~is_quote_line(Head(lines)) THEN <<Head(lines)>> ELSE <<>>)
         \o EffectiveLines(Tail(lines))

\* '\n'.join(effective_lines)
JoinLinesCRLF(lines) == Join(lines, <<"\r", "\n">>)
JoinLines(lines) == Join(lines, <<"\n">>)

\* re.sub(r'\n{3,}', '\n\n', result): of every run of three or more newlines
\* the first two are kept
CollapseBlankLines(s) ==
    KeepAt(s, {i \in 1..Len(s) :
                  ~(i >= 3 /\ s[i] = "\n" /\ s[i - 1] = "\n" /\ s[i - 2] = "\n")})

\* QuoteDetector.extract_effective_content
extract_effective_content(text) ==
    LET nosig  == remove_signature(text)
        lines  == SplitLines(nosig)
        result == JoinLines(EffectiveLines(lines))
    IN  Strip(CollapseBlankLines(result))

\* quoted_lines / total_lines if total_lines > 0 else 0.0, as the exact ratio
\* <<numerator, denominator>>
RatioTimes100(quoted_lines, total_lines) ==
    IF total_lines > 0 THEN <<100 * quoted_lines, total_lines>> ELSE <<0, 1>>
Ratio(quoted_lines, total_lines) ==
    IF total_lines > 0 THEN <<quoted_lines, total_lines>> ELSE <<0, 1>>

\* a > b on ratios with positive denominators (float '>' of the two quotients)
RatioGe(a, b) == a[1] * b[2] >= b[1] * a[2]
RatioGt(a, b) == a[1] * b[2] > b[1] * a[2]

\* QuoteDetector.analyze
analyze(text) ==
    LET lines == SplitLines(text)
        total_lines == Len(lines)
        quoted_lines == Cardinality({i \in 1..Len(lines) : is_quote_line(lines[i])})
        body_effective == extract_effective_content(text)
    IN  [total_lines      |-> total_lines,
         quoted_lines     |-> quoted_lines,
         effective_lines  |-> Len(SplitLines(body_effective)),
         quote_percentage |-> Ratio(quoted_lines, total_lines),
         body_effective   |-> body_effective]

\* QuoteDetector.is_mostly_quoted
is_mostly_quoted(text, threshold) ==
    RatioGt(analyze(text).quote_percentage, threshold)

-----------------------------------------------------------------------------
(* config.py and extractors/metadata.py *)

Digits == <<"0", "1", "2", "3", "4", "5", "6", "7", "8", "9">>

DigitChars == {Digits[i] : i \in 1..10}

IsDigit(c) == c \in DigitChars

\* the characters regex \w matches, among the characters of the model
WordChars ==
    DigitChars \cup DOMAIN LowerOf \cup {LowerOf[u] : u \in DOMAIN LowerOf} \cup {"_"}

IsWordChar(c) == c \in WordChars

\* regex \b between s[p-1] and s[p]
WordBoundary(s, p) ==
    LET before == p > 1 /\ p - 1 <= Len(s) /\ IsWordChar(s[p - 1])
        after  == p >= 1 /\ p <= Len(s) /\ IsWordChar(s[p])
    IN  before # after

\* MavenProjects.load: the configuration is read from the file once and kept
load(mp, file_keys) ==
    IF ~mp.config_loaded THEN [mp EXCEPT !.config_loaded = TRUE, !.config = file_keys]
    ELSE mp

\* MavenProjects.get_jira_pattern: the matcher is compiled from the project
\* keys on first use and kept; the returned pattern is the jira_pattern field
\* of the result.  A compiled matcher is represented by its list of keys.
get_jira_pattern_recompiling(mp, file_keys) ==
    [mp EXCEPT !.config_loaded = TRUE, !.config = file_keys,
               !.pattern_built = TRUE, !.jira_pattern = file_keys]
get_jira_pattern(mp, file_keys) ==
    IF ~mp.pattern_built
    THEN LET loaded == load(mp, file_keys)
         IN  [loaded EXCEPT !.pattern_built = TRUE, !.jira_pattern = loaded.config]
    ELSE mp

\* end position of a match of \b(?:K1|K2|...)-\d+\b starting at p, 0 if none:
\* a key followed by '-' and by the whole run of digits after it.  "|".join of
\* no key is the empty pattern, whose only alternative is the empty string.
JiraMatchEnd(pattern, s, p) ==
    IF ~WordBoundary(s, p) THEN 0
    ELSE LET alts == IF pattern = <<>> THEN << <<>> >> ELSE pattern
             keys == {k \in 1..Len(alts) :
                        /\ StartsWithAt(s, p, alts[k])
                        /\ p + Len(alts[k]) <= Len(s)
                        /\ s[p + Len(alts[k])] = "-"}
             EndWith(k) ==
                LET d  == p + Len(alts[k]) + 1
                    nd == {j \in d..Len(s) : ~IsDigit(s[j])}
                    e  == IF nd = {} THEN Len(s) ELSE Min(nd) - 1
                IN  IF e >= d /\ WordBoundary(s, e + 1) THEN e ELSE 0
             ends == {EndWith(k) : k \in keys} \ {0}
         IN  IF ends = {} THEN 0 ELSE EndWith(Min({k \in keys : EndWith(k) # 0}))

\* pattern.findall(text): the non-overlapping matches, left to right
RECURSIVE JiraFindAll(_, _, _)
JiraFindAll(pattern, s, i) ==
    LET starts == {p \in i..Len(s) : JiraMatchEnd(pattern, s, p) # 0}
    IN  IF starts = {} THEN <<>>
        ELSE LET p == Min(starts)
                 e == JiraMatchEnd(pattern, s, p)
             IN  <<SubSeq(s, p, e)>> \o JiraFindAll(pattern, s, e + 1)

\* the elements of a list without repetitions, in order of first occurrence
RECURSIVE UniqueInOrder(_, _)
UniqueInOrder(matches, seen) ==
    IF matches = <<>> THEN <<>>
    ELSE IF Head(matches) \in seen THEN UniqueInOrder(Tail(matches), seen)
    ELSE <<Head(matches)>> \o UniqueInOrder(Tail(matches), seen \cup {Head(matches)})

\* MetadataExtractor.extract_jira_references
extract_jira_references(pattern, text) ==
    UniqueInOrder(JiraFindAll(pattern, text, 1), {})

\* re.findall over a text: ends[p] is the end of the match that starts at p
\* (0 if none); the non-overlapping matches <<start, end>>, left to right
RECURSIVE FindAll(_, _, _)
FindAll(ends, s, i) ==
    LET starts == {p \in i..Len(s) : ends[p] # 0}
    IN  IF starts = {} THEN <<>>
        ELSE LET p == Min(starts)
             IN  <<(<<p, ends[p]>>)>> \o FindAll(ends, s, ends[p] + 1)

\* the values of a list, as a set
Range(f) == {f[i] : i \in DOMAIN f}

\* list(set(values)): a set of str is iterated in the order of the hashes of
\* its elements, which changes from process to process, so any order of the
\* distinct values can be the one returned
ListOfSet(values) ==
    {l \in [1..Cardinality(values) -> values] : Range(l) = values}

\* end of the run of digits that starts at d (d - 1 when s[d] is no digit)
DigitsEnd(s, d) ==
    LET nd == {j \in d..Len(s) : ~IsDigit(s[j])}
    IN  IF nd = {} THEN Max({Len(s), d - 1}) ELSE Min(nd) - 1

\* GITHUB_PR_PATTERN  #(\d+)\b : end of the match that starts at p, 0 if none
GITHUB_PR_PATTERN(s, p) ==
    IF s[p] # "#" THEN 0
    ELSE LET e == DigitsEnd(s, p + 1)
         IN  IF e >= p + 1 /\ WordBoundary(s, e + 1) THEN e ELSE 0

\* MetadataExtractor.extract_github_pr_references: the possible return values
extract_github_pr_references_keeping_duplicates(text) ==
    LET ends    == [p \in 1..Len(text) |-> GITHUB_PR_PATTERN(text, p)]
        found   == FindAll(ends, text, 1)
        matches == [k \in 1..Len(found) |-> SubSeq(text, found[k][1] + 1, found[k][2])]
    IN  {matches}
extract_github_pr_references(text) ==
    LET ends    == [p \in 1..Len(text) |-> GITHUB_PR_PATTERN(text, p)]
        found   == FindAll(ends, text, 1)
        matches == [k \in 1..Len(found) |-> SubSeq(text, found[k][1] + 1, found[k][2])]
    IN  ListOfSet(Range(matches))

HexChars == DigitChars \cup {"a", "b", "c", "d", "e", "f"}

\* [0-9a-f] under re.IGNORECASE
IsHex(c) == Lower(c) \in HexChars

\* str.lower()
LowerStr(s) == [i \in 1..Len(s) |-> Lower(s[i])]

\* GITHUB_COMMIT_PATTERN  \b([0-9a-f]{7,40})\b  (IGNORECASE): end of the match
\* that starts at p, 0 if none; the repetition is greedy and gives characters
\* back until a word boundary follows
GITHUB_COMMIT_PATTERN(s, p) ==
    IF ~WordBoundary(s, p) THEN 0
    ELSE LET nh   == {j \in p..Len(s) : ~IsHex(s[j])}
             last == IF nh = {} THEN Len(s) ELSE Min(nh) - 1
             ends == {e \in (p + 6)..Min({last, p + 39}) : WordBoundary(s, e + 1)}
         IN  IF ends = {} THEN 0 ELSE Max(ends)

\* the hex strings the filter of extract_github_commit_references drops
NonCommitPatterns ==
    {<<"f", "f", "f", "f", "f", "f">>,
     <<"d", "e", "a", "d", "b", "e", "e", "f">>,
     <<"0", "0", "0", "0", "0", "0", "0">>}

\* MetadataExtractor.extract_github_commit_references: the possible return values
extract_github_commit_references(text) ==
    LET ends     == [p \in 1..Len(text) |-> GITHUB_COMMIT_PATTERN(text, p)]
        found    == FindAll(ends, text, 1)
        matches  == [k \in 1..Len(found) |-> SubSeq(text, found[k][1], found[k][2])]
        filtered == {m \in Range(matches) :
                        /\ 7 <= Len(m) /\ Len(m) <= 40
                        /\ LowerStr(m) \notin NonCommitPatterns}
    IN  ListOfSet(filtered)

\* the pre-release words of VERSION_PATTERN, in lower case
VersionQualifiers ==
    <<(<<"a", "l", "p", "h", "a">>), (<<"b", "e", "t", "a">>), (<<"r", "c">>),
      (<<"s", "n", "a", "p", "s", "h", "o", "t">>), (<<"m">>)>>

\* the concatenation of a list of lists
RECURSIVE Flatten(_)
Flatten(ls) == IF ls = <<>> THEN <<>> ELSE Head(ls) \o Flatten(Tail(ls))

\* VERSION_PATTERN
\*   \b\d+\.\d+(?:\.\d+)?(?:-(?:alpha|beta|rc|SNAPSHOT|M)\d*)?(?:-\d+)?\b
\* (IGNORECASE): end of the match that starts at p, 0 if none.  Every run of
\* digits is taken whole (what may follow a shorter one is '.', '-' or a word
\* boundary, and none of them is found before a digit); each optional group
\* is tried present before absent, the earlier group first.
VERSION_PATTERN(s, p) ==
    IF ~WordBoundary(s, p) THEN 0
    ELSE LET a == DigitsEnd(s, p)
             b == DigitsEnd(s, a + 2)
             Is(i, c) == i <= Len(s) /\ s[i] = c
             Third(e) == IF Is(e + 1, ".") /\ DigitsEnd(s, e + 2) >= e + 2
                         THEN DigitsEnd(s, e + 2) ELSE 0
             Qualifier(e) ==
                LET ks == {k \in 1..Len(VersionQualifiers) :
                              StartsWithAtI(s, e + 2, VersionQualifiers[k])}
                IN  IF Is(e + 1, "-") /\ ks # {}
                    THEN DigitsEnd(s, e + 2 + Len(VersionQualifiers[Min(ks)]))
                    ELSE 0
             Build(e) == IF Is(e + 1, "-") /\ DigitsEnd(s, e + 2) >= e + 2
                         THEN DigitsEnd(s, e + 2) ELSE 0
             Opt(G(_), e) == IF G(e) # 0 THEN <<G(e), e>> ELSE <<e>>
             after3 == Opt(Third, b)
             afterQ == Flatten([i \in 1..Len(after3) |-> Opt(Qualifier, after3[i])])
             afterB == Flatten([i \in 1..Len(afterQ) |-> Opt(Build, afterQ[i])])
             ok     == {i \in 1..Len(afterB) : WordBoundary(s, afterB[i] + 1)}
         IN  IF a >= p /\ Is(a + 1, ".") /\ b >= a + 2 /\ ok # {}
             THEN afterB[Min(ok)] ELSE 0

\* int() of a string of digits
RECURSIVE IntOf(_)
IntOf(s) ==
    IF s = <<>> THEN 0
    ELSE 10 * IntOf(SubSeq(s, 1, Len(s) - 1))
         + (CHOOSE d \in 0..9 : Digits[d + 1] = s[Len(s)])

\* the characters of a version number in the order of their code points
CodePoints ==
    <<"-", ".", "0", "1", "2", "3", "4", "5", "6", "7", "8", "9",
      "A", "B", "C", "D", "E", "F", "G", "H", "I", "J", "K", "L", "M",
      "N", "O", "P", "Q", "R", "S", "T", "U", "V", "W", "X", "Y", "Z",
      "a", "b", "c", "d", "e", "f", "g", "h", "i", "j", "k", "l", "m",
      "n", "o", "p", "q", "r", "s", "t", "u", "v", "w", "x", "y", "z">>

\* ord() of a character
Ord(c) == CHOOSE i \in 1..Len(CodePoints) : CodePoints[i] = c

\* the order of str: a < b
StrLess(a, b) ==
    \/ Len(a) < Len(b) /\ SubSeq(b, 1, Len(a)) = a
    \/ \E i \in 1..Min({Len(a), Len(b)}) :
          /\ SubSeq(a, 1, i - 1) = SubSeq(b, 1, i - 1)
          /\ Ord(a[i]) < Ord(b[i])

\* sorted() of a set of str
RECURSIVE Sorted(_)
Sorted(S) ==
    IF S = {} THEN <<>>
    ELSE LET least == CHOOSE x \in S : \A y \in S \ {x} : StrLess(x, y)
         IN  <<least>> \o Sorted(S \ {least})

\* match.split('.')[0].split('-')[0]
FirstComponent(match) ==
    SubSeq(match, 1, Min({i \in 1..(Len(match) + 1) :
                             i > Len(match) \/ match[i] \in {".", "-"}}) - 1)

\* str.isdigit()
IsDigits(s) == s # <<>> /\ \A i \in 1..Len(s) : IsDigit(s[i])

\* the largest first component of a version that is kept
MaxFirstComponent == 31

\* MetadataExtractor.extract_version_numbers
extract_version_numbers_unsorted(text) ==
    LET ends     == [p \in 1..Len(text) |-> VERSION_PATTERN(text, p)]
        found    == FindAll(ends, text, 1)
        matches  == [k \in 1..Len(found) |-> SubSeq(text, found[k][1], found[k][2])]
        versions == {m \in Range(matches) :
                        ~(IsDigits(FirstComponent(m))
                          /\ IntOf(FirstComponent(m)) > MaxFirstComponent)}
    IN  UniqueInOrder(SelectSeq(matches, LAMBDA m : m \in versions), {})
extract_version_numbers(text) ==
    LET ends     == [p \in 1..Len(text) |-> VERSION_PATTERN(text, p)]
        found    == FindAll(ends, text, 1)
        matches  == [k \in 1..Len(found) |-> SubSeq(text, found[k][1], found[k][2])]
        versions == {m \in Range(matches) :
                        ~(IsDigits(FirstComponent(m))
                          /\ IntOf(FirstComponent(m)) > MaxFirstComponent)}
    IN  Sorted(versions)

\* DECISION_KEYWORDS
DECISION_KEYWORDS ==
    <<(<<"d", "e", "c", "i", "d", "e", "d">>),
      (<<"c", "o", "n", "s", "e", "n", "s", "u", "s">>),
      (<<"a", "g", "r", "e", "e", "d">>),
      (<<"r", "e", "s", "o", "l", "v", "e", "d">>),
      (<<"w", "o", "n", "t", "f", "i", "x">>),
      (<<"a", "p", "p", "r", "o", "v", "e", "d">>),
      (<<"r", "e", "j", "e", "c", "t", "e", "d">>),
      (<<"a", "c", "c", "e", "p", "t", "e", "d">>),
      (<<"d", "e", "c", "l", "i", "n", "e", "d">>)>>

\* _decision_pattern  \b(kw1|kw2|...)\b  (IGNORECASE): end of the match that
\* starts at p, 0 if none
decision_pattern(s, p) ==
    LET ks == {k \in 1..Len(DECISION_KEYWORDS) :
                  /\ StartsWithAtI(s, p, DECISION_KEYWORDS[k])
                  /\ WordBoundary(s, p + Len(DECISION_KEYWORDS[k]))}
    IN  IF WordBoundary(s, p) /\ ks # {}
        THEN p + Len(DECISION_KEYWORDS[Min(ks)]) - 1 ELSE 0

\* MetadataExtractor.extract_decision_keywords: the possible return values
extract_decision_keywords(text) ==
    LET ends    == [p \in 1..Len(text) |-> decision_pattern(text, p)]
        found   == FindAll(ends, text, 1)
        matches == [k \in 1..Len(found) |->
                       LowerStr(SubSeq(text, found[k][1], found[k][2]))]
    IN  ListOfSet(Range(matches))

\* VOTE_PATTERN  \[VOTE\]|\[RESULT\]  (IGNORECASE) matches at p
VOTE_PATTERN_case_sensitive(s, p) ==
    \/ StartsWithAt(s, p, <<"[", "V", "O", "T", "E", "]">>)
    \/ StartsWithAt(s, p, <<"[", "R", "E", "S", "U", "L", "T", "]">>)
VOTE_PATTERN(s, p) ==
    \/ StartsWithAtI(s, p, <<"[", "v", "o", "t", "e", "]">>)
    \/ StartsWithAtI(s, p, <<"[", "r", "e", "s", "u", "l", "t", "]">>)

\* VOTE_VALUE_PATTERN  (?:^|\s)([+-][01])(?:\s|$)  (MULTILINE): the position
\* of group 1 of the match that starts at p, 0 if none
VOTE_VALUE_PATTERN(s, p) ==
    LET Token(t) == /\ t + 1 <= Len(s)
                    /\ s[t] \in {"+", "-"}
                    /\ s[t + 1] \in {"0", "1"}
                    /\ \/ t + 2 <= Len(s) /\ IsSpace(s[t + 2])
                       \/ t + 2 > Len(s)
                       \/ s[t + 2] = "\n"
    IN  IF (p = 1 \/ s[p - 1] = "\n") /\ Token(p) THEN p
        ELSE IF p <= Len(s) /\ IsSpace(s[p]) /\ Token(p + 1) THEN p + 1
        ELSE 0

\* MetadataExtractor.extract_vote_info
extract_vote_info_after_marker(text) ==
    LET has_vote == \E p \in 1..Len(text) : VOTE_PATTERN(text, p)
        starts   == {p \in 1..Len(text) : VOTE_VALUE_PATTERN(text, p) # 0}
        t        == VOTE_VALUE_PATTERN(text, Min(starts))
    IN  <<has_vote, IF has_vote /\ starts # {} THEN SubSeq(text, t, t + 1) ELSE None>>
extract_vote_info(text) ==
    LET has_vote == \E p \in 1..Len(text) : VOTE_PATTERN(text, p)
        starts   == {p \in 1..Len(text) : VOTE_VALUE_PATTERN(text, p) # 0}
        t        == VOTE_VALUE_PATTERN(text, Min(starts))
    IN  <<has_vote, IF starts # {} THEN SubSeq(text, t, t + 1) ELSE None>>

\* MetadataExtractor.extract: the possible return values
extract(pattern, text) ==
    {[jira_references          |-> extract_jira_references(pattern, text),
      github_pr_references     |-> github_prs,
      github_commit_references |-> github_commits,
      version_numbers          |-> extract_version_numbers(text),
      decision_keywords        |-> keywords,
      has_vote                 |-> extract_vote_info(text)[1],
      vote_value               |-> extract_vote_info(text)[2]] :
        github_prs \in extract_github_pr_references(text),
        github_commits \in extract_github_commit_references(text),
        keywords \in extract_decision_keywords(text)}

-----------------------------------------------------------------------------
(* parsers/email_parser.py *)

HeaderNames == {"Message-ID", "In-Reply-To", "References", "From", "To", "Cc",
                "Subject", "Date", "List-Id", "List-Post"}

\* a header the message does not carry
Absent == <<"<absent>">>

\* what Message.get returns for a header holding undecodable 8-bit bytes: an
\* email.header.Header object, which has none of the str methods
Header8bit == <<"<Header>">>

\* message.get(name, default)
Get(msg, name, default) ==
    IF msg.headers[name] = Absent THEN default ELSE msg.headers[name]

\* s.find(sub, start) with 1-based positions; 0 when sub does not occur
Find(s, sub, start) ==
    LET hits == {p \in start..Len(s) : StartsWithAt(s, p, sub)}
    IN  IF hits = {} THEN 0 ELSE Min(hits)

\* str.split(): the maximal runs of non-whitespace characters
RECURSIVE SplitWhitespace(_, _)
SplitWhitespace(s, i) ==
    LET ns == {j \in i..Len(s) : ~IsSpace(s[j])}
    IN  IF ns = {} THEN <<>>
        ELSE LET b  == Min(ns)
                 ws == {j \in b..Len(s) : IsSpace(s[j])}
                 e  == IF ws = {} THEN Len(s) ELSE Min(ws) - 1
             IN  <<SubSeq(s, b, e)>> \o SplitWhitespace(s, e + 1)

\* email.utils.parseaddr on the address forms of the model, 'name <addr>'
\* and 'addr': the pair <<realname, address>>
parseaddr(s) ==
    LET lt == Find(s, <<"<">>, 1)
        gt == IF lt = 0 THEN 0 ELSE Find(s, <<">">>, lt + 1)
    IN  IF lt # 0 /\ gt # 0
        THEN <<Strip(SubSeq(s, 1, lt - 1)), SubSeq(s, lt + 1, gt - 1)>>
        ELSE <<<<>>, Strip(s)>>

\* EmailParser.parse_address
parse_address(address_string) ==
    IF address_string = None \/ address_string = <<>> THEN <<None, <<>>>>
    ELSE LET p == parseaddr(address_string)
         IN  <<IF p[1] # <<>> THEN p[1] ELSE None, IF p[2] # <<>> THEN p[2] ELSE <<>>>>

\* str.split(','), used by the model of email.utils.getaddresses
RECURSIVE SplitComma(_, _)
SplitComma(s, i) ==
    LET cs == {j \in i..Len(s) : s[j] = ","}
    IN  IF cs = {} THEN <<SubSeq(s, i, Len(s))>>
        ELSE <<SubSeq(s, i, Min(cs) - 1)>> \o SplitComma(s, Min(cs) + 1)

\* EmailParser.parse_address_list: the non-empty addresses of
\* email.utils.getaddresses([address_string])
parse_address_list(address_string) ==
    IF address_string = None \/ address_string = <<>> THEN <<>>
    ELSE LET items == SplitComma(address_string, 1)
             addrs == [i \in 1..Len(items) |-> parseaddr(items[i])[2]]
         IN  SelectSeq(addrs, LAMBDA a : a # <<>>)

\* Date header values of the model and what email.utils.parsedate_to_datetime
\* does with each (Python 3.11)
DateValid    == <<"1", " ", "J", "a", "n", " ", "2", "0", "2", "4", " ",
                  "0", "0", ":", "0", "0", ":", "0", "0", " ", "+", "0", "0", "0", "0">>
DateGarbage  == <<"g", "a", "r", "b", "a", "g", "e">>
DateHugeYear == <<"1", " ", "J", "a", "n", " ", "9", "9", "9", "9", "9", "9", "9", "9",
                  "9", "9", "9", "9", "9", "9", "9", "9", "9", "9", "9", "9", " ",
                  "0", "0", ":", "0", "0", ":", "0", "0", " ", "+", "0", "0", "0", "0">>

\* email.utils.parsedate_to_datetime: [exc, value]
parsedate_to_datetime(data) ==
    IF data = Header8bit THEN [exc |-> "AttributeError", value |-> None]
    ELSE IF data = DateValid THEN [exc |-> "", value |-> <<"<datetime>">> \o data]
    ELSE IF data = DateHugeYear THEN [exc |-> "OverflowError", value |-> None]
    ELSE [exc |-> "ValueError", value |-> None]

\* EmailParser.parse_date: [exc, value]; only TypeError and ValueError are
\* caught
parse_date(date_string) ==
    IF date_string = None \/ date_string = <<>> THEN [exc |-> "", value |-> None]
    ELSE LET r == parsedate_to_datetime(date_string)
         IN  IF r.exc \in {"TypeError", "ValueError"} THEN [exc |-> "", value |-> None]
             ELSE r

\* EmailParser.parse_references: [exc, value]
parse_references(references_string) ==
    IF references_string = None \/ references_string = <<>> THEN [exc |-> "", value |-> <<>>]
    ELSE IF references_string = Header8bit THEN [exc |-> "AttributeError", value |-> <<>>]
    ELSE LET refs == [i \in 1..Len(references_string) |->
                         IF references_string[i] \in {"\n", "\r"} THEN " "
                         ELSE references_string[i]]
             toks == SplitWhitespace(refs, 1)
         IN  [exc |-> "",
              value |-> SelectSeq(toks, LAMBDA ref :
                          Head(Strip(ref)) = "<" /\ Strip(ref)[Len(Strip(ref))] = ">")]

\* an undecodable byte of a payload and the replacement character it decodes to
BadByte == "<0xff>"
ReplacementChar == "<U+FFFD>"

\* payload.decode(charset, errors="replace"): [exc, value]
Decode(payload, charset) ==
    IF charset = "x-unknown" THEN [exc |-> "LookupError", value |-> <<>>]
    ELSE [exc |-> "",
          value |-> [i \in 1..Len(payload) |->
                        IF payload[i] = BadByte THEN ReplacementChar ELSE payload[i]]]

\* the text one part contributes to the body: nothing when its payload is
\* empty or when decoding raises (logged, the part is skipped)
PartText(part) ==
    IF part.payload = <<>> THEN <<>>
    ELSE LET r == Decode(part.payload, IF part.charset = "" THEN "utf-8" ELSE part.charset)
         IN  IF r.exc # "" THEN <<>> ELSE <<r.value>>

RECURSIVE PlainTexts(_)
PlainTexts(parts) ==
    IF parts = <<>> THEN <<>>
    ELSE (IF Head(parts).content_type = "text/plain" THEN PartText(Head(parts)) ELSE <<>>)
         \o PlainTexts(Tail(parts))

\* EmailParser.extract_body; msg.parts is message.walk(): the message itself
\* first, then its sub-parts
extract_body(msg) ==
    LET body_parts == IF msg.multipart THEN PlainTexts(msg.parts)
                      ELSE PartText(msg.parts[1])
    IN  Join(body_parts, <<"\n", "\n">>)

\* EmailParser.has_attachments
has_attachments(msg) ==
    IF ~msg.multipart THEN FALSE
    ELSE \E i \in 1..Len(msg.parts) :
            \/ msg.parts[i].disposition = "attachment"
            \/ msg.parts[i].content_type \notin
                 {"text/plain", "text/html", "multipart/alternative", "multipart/mixed"}

\* the characters of a header name
HeaderText(name) ==
    IF name = "Message-ID" THEN <<"M", "e", "s", "s", "a", "g", "e", "-", "I", "D">>
    ELSE IF name = "In-Reply-To" THEN <<"I", "n", "-", "R", "e", "p", "l", "y", "-", "T", "o">>
    ELSE IF name = "References" THEN <<"R", "e", "f", "e", "r", "e", "n", "c", "e", "s">>
    ELSE IF name = "From" THEN <<"F", "r", "o", "m">>
    ELSE IF name = "To" THEN <<"T", "o">>
    ELSE IF name = "Cc" THEN <<"C", "c">>
    ELSE IF name = "Subject" THEN <<"S", "u", "b", "j", "e", "c", "t">>
    ELSE IF name = "Date" THEN <<"D", "a", "t", "e">>
    ELSE IF name = "List-Id" THEN <<"L", "i", "s", "t", "-", "I", "d">>
    ELSE <<"L", "i", "s", "t", "-", "P", "o", "s", "t">>

\* the headers in the order the message is serialized
HeaderOrder == <<"Message-ID", "In-Reply-To", "References", "From", "To", "Cc",
                 "Subject", "Date", "List-Id", "List-Post">>

RECURSIVE HeaderLines(_, _)
HeaderLines(msg, i) ==
    IF i > Len(HeaderOrder) THEN <<>>
    ELSE LET name == HeaderOrder[i]
             v    == msg.headers[name]
         IN  (IF v = Absent THEN <<>>
              ELSE HeaderText(name) \o <<":", " ">>
                   \o (IF v = Header8bit THEN <<BadByte>> ELSE v) \o <<"\n">>)
             \o HeaderLines(msg, i + 1)

\* message.as_string(): the header lines, an empty line, the payloads
as_string(msg) ==
    HeaderLines(msg, 1) \o <<"\n">>
    \o Join([i \in 1..Len(msg.parts) |-> msg.parts[i].payload], <<"\n">>)

\* width of a hash value in bits (Py_hash_t has 64) and the largest hash key
HashBits == 6
MaxSeed == 1

\* the characters told apart by the hash of the model
Alphabet == <<"\n", " ", "<", ">", "@", ":", "-", ".", "a", "b", "d", "e", "g", "i", "o",
              "r", "s", "t", "v", "w", "x", "y", "0", "1", "2", "9", "D", "M", "N", "G">>

CodeOf == [c \in {Alphabet[i] : i \in 1..Len(Alphabet)} |->
              CHOOSE i \in 1..Len(Alphabet) : Alphabet[i] = c]

\* the code of a character (0 outside the alphabet)
Code(c) == IF c \in DOMAIN CodeOf THEN CodeOf[c] ELSE 0

HashModulus == 2 ^ HashBits

\* the builtin hash() of a str: a keyed hash whose key is drawn when the
\* process starts (here a position-weighted checksum of the characters mixed
\* with the key); a signed value of HashBits bits, never -1
hash(seed, s) ==
    LET sum == BagCardinality([i \in 1..Len(s) |->
                                  1 + (((Code(s[i]) + seed) * (i + seed)) % HashModulus)])
        u == (sum + seed) % HashModulus
        v == IF u >= HashModulus \div 2 THEN u - HashModulus ELSE u
    IN  IF v = -1 THEN -2 ELSE v

\* str(n) for n >= 0
RECURSIVE NatToStr(_)
NatToStr(n) ==
    IF n < 10 THEN <<Digits[n + 1]>>
    ELSE NatToStr(n \div 10) \o <<Digits[(n % 10) + 1]>>

\* str(n) as formatted into an f-string
IntToStr(n) == IF n < 0 THEN <<"-">> \o NatToStr(-n) ELSE NatToStr(n)

NoMessageIdPrefix == <<"<", "n", "o", "-", "m", "e", "s", "s", "a", "g", "e", "-", "i", "d", "-">>

NoSubject == <<"(", "N", "o", " ", "s", "u", "b", "j", "e", "c", "t", ")">>

\* the Message-ID placeholder of EmailParser.parse
PlaceholderId(msg, seed) ==
    NoMessageIdPrefix \o IntToStr(hash(seed, as_string(msg))) \o <<">">>

\* list_address as derived by EmailParser.parse from List-Post and List-Id
ListAddress(list_id, list_post) ==
    LET mailto == <<"<", "m", "a", "i", "l", "t", "o", ":">>
    IN  IF list_post # <<>> /\ Find(list_post, mailto, 1) # 0
        THEN LET start == Find(list_post, mailto, 1) + 8
                 end   == Find(list_post, <<">">>, start)
             IN  IF end > start THEN SubSeq(list_post, start, end - 1) ELSE None
        ELSE IF list_id # <<>>
        THEN IF Find(list_id, <<"<">>, 1) # 0 /\ Find(list_id, <<">">>, 1) # 0
             THEN LET start == Find(list_id, <<"<">>, 1) + 1
                      end   == Find(list_id, <<">">>, start)
                  IN  IF end > start
                      THEN LET list_domain == SubSeq(list_id, start, end - 1)
                               dot == Find(list_domain, <<".">>, 1)
                           IN  IF dot # 0
                               THEN SubSeq(list_domain, 1, dot - 1) \o <<"@">>
                                    \o SubSeq(list_domain, dot + 1, Len(list_domain))
                               ELSE None
                      ELSE None
             ELSE None
        ELSE None

\* the first exception among the steps of a computation, "" when none raises
FirstExc(excs) ==
    LET raised == {i \in 1..Len(excs) : excs[i] # ""}
    IN  IF raised = {} THEN "" ELSE excs[Min(raised)]

\* the str method call value.strip() raises on a Header object
StripExc(value) == IF value = Header8bit THEN "AttributeError" ELSE ""

\* EmailParser.parse: [exc, record]; exc is the exception that escapes parse
\* ("" when it returns), parser is the EmailParser (its JIRA matcher and the
\* quote detector's threshold), seed the string-hash key of the process
parse(msg, mbox_file, mbox_offset, parser, seed) ==
    LET mid_raw    == Get(msg, "Message-ID", <<>>)
        irt_raw    == Get(msg, "In-Reply-To", <<>>)
        references == parse_references(Get(msg, "References", None))
        from       == parse_address(Get(msg, "From", None))
        subject    == Get(msg, "Subject", NoSubject)
        body_full  == extract_body(msg)
        date       == parse_date(Get(msg, "Date", None))
        lid_raw    == Get(msg, "List-Id", <<>>)
        lpost_raw  == Get(msg, "List-Post", <<>>)
        exc        == FirstExc(<<StripExc(mid_raw), StripExc(irt_raw), references.exc,
                                 date.exc, StripExc(lid_raw), StripExc(lpost_raw)>>)
    IN  IF exc # "" THEN [exc |-> exc, record |-> None]
        ELSE LET quote_analysis == analyze(body_full)
                 combined_text  == subject \o <<"\n", "\n">> \o body_full
             IN  [exc |-> "",
                  record |->
                    [message_id  |-> IF Strip(mid_raw) = <<>> THEN PlaceholderId(msg, seed)
                                     ELSE Strip(mid_raw),
                     in_reply_to |-> IF Strip(irt_raw) = <<>> THEN None ELSE Strip(irt_raw),
                     references  |-> references.value,
                     from_address |-> from[2],
                     from_name   |-> from[1],
                     to          |-> parse_address_list(Get(msg, "To", None)),
                     cc          |-> parse_address_list(Get(msg, "Cc", None)),
                     subject     |-> subject,
                     body_full   |-> body_full,
                     body_effective |-> quote_analysis.body_effective,
                     date        |-> date.value,
                     list_address |-> ListAddress(Strip(lid_raw), Strip(lpost_raw)),
                     mbox_file   |-> mbox_file,
                     mbox_offset |-> mbox_offset,
                     has_attachment |-> has_attachments(msg),
                     quote_percentage |-> quote_analysis.quote_percentage,
                     is_mostly_quoted |->
                        RatioGt(quote_analysis.quote_percentage, parser.quote_threshold),
                     jira_references |->
                        extract_jira_references(parser.jira_pattern, combined_text)]]

-----------------------------------------------------------------------------
(* Inputs *)

\* bounds of the model
MaxChunks == 3
MaxInbox == 2
MaxRuns == 2

\* QuoteDetector.__init__'s default quote_threshold, 0.8
DefaultThreshold == <<8, 10>>

Thresholds == {DefaultThreshold, <<1, 2>>, <<0, 1>>}

\* project-key lists a configuration file may hold
KeyMNG == <<"M", "N", "G">>
KeyMD == <<"M", "D">>
KeyLists == {<<KeyMNG>>, <<KeyMNG, KeyMD>>}

\* the pieces body texts are built from
Chunks == {<<"\n">>, <<" ">>, <<">">>, <<"a">>, <<"T", "h", "a", "n", "k", "s">>, <<"-", "-">>,
           <<"w", "r", "o", "t", "e", ":">>, <<"F", "r", "o", "m", ":">>}

RECURSIVE TextsUpTo(_)
TextsUpTo(n) ==
    IF n = 0 THEN {<<>>}
    ELSE LET shorter == TextsUpTo(n - 1)
         IN  shorter \cup {t \o c : t \in shorter, c \in Chunks}

\* "> quoted line\nreal content\n"
ScenarioBody == <<">", " ", "q", "u", "o", "t", "e", "d", " ", "l", "i", "n", "e", "\n", "r", "e", "a", "l", " ", "c", "o", "n", "t", "e", "n", "t", "\n">>

\* four quoted lines out of five
FourOfFive == <<">", "\n", ">", "\n", ">", "\n", ">", "\n", "a">>

Bodies == TextsUpTo(MaxChunks) \cup {ScenarioBody, FourOfFive}

\* a single-part text/plain message
SinglePart(headers, payload) ==
    [headers |-> headers, multipart |-> FALSE,
     parts |-> <<[content_type |-> "text/plain", disposition |-> "",
                  charset |-> "", payload |-> payload]>>]

MessageIdA == <<"<", "a", "@", "x", ">">>
MessageIdB == <<"<", "b", "@", "x", ">">>

Headers(mid, irt, refs, from, to, cc, subject, date, lid, lpost) ==
    [n \in HeaderNames |->
        CASE n = "Message-ID"  -> mid
          [] n = "In-Reply-To" -> irt
          [] n = "References"  -> refs
          [] n = "From"        -> from
          [] n = "To"          -> to
          [] n = "Cc"          -> cc
          [] n = "Subject"     -> subject
          [] n = "Date"        -> date
          [] n = "List-Id"     -> lid
          [] n = "List-Post"   -> lpost]

FullHeaders(mid) ==
    Headers(mid, MessageIdB, <<"<", "b", "@", "x", ">", " ", "c">>,
            <<"J", " ", "<", "j", "@", "x", ">">>, <<"a", "@", "x", ",", " ", "B", " ", "<", "b", "@", "y", ">">>, <<"c", "@", "x">>,
            <<"R", "e", ":", " ", "M", "N", "G", "-", "1">>, DateValid,
            <<"<", "d", "e", "v", ".", "x", ".", "o", "r", "g", ">">>, <<"<", "m", "a", "i", "l", "t", "o", ":", "d", "e", "v", "@", "x", ".", "o", "r", "g", ">">>)

\* messages whose body is a given text
QuoteMessage(body) == SinglePart(FullHeaders(MessageIdA), body)

SmallBody == <<">", " ", "q", "\n", "M", "D", "-", "2", " ", "M", "N", "G", "-", "1", "\n">>

\* every combination of present and missing optional headers, with the Date
\* header parseable or not
HeaderMessages ==
    {SinglePart(Headers(mid, irt, refs, from, to, cc, subject, date, lid, lpost), SmallBody) :
        mid \in {Absent, <<" ">>, MessageIdA},
        irt \in {Absent, MessageIdB},
        refs \in {Absent, <<"<", "b", "@", "x", ">", " ", "c">>},
        from \in {Absent, <<"J", " ", "<", "j", "@", "x", ">">>},
        to \in {Absent, <<"a", "@", "x", ",", " ", "B", " ", "<", "b", "@", "y", ">">>},
        cc \in {Absent, <<"c", "@", "x">>},
        subject \in {Absent, <<"R", "e", ":", " ", "M", "N", "G", "-", "1">>},
        date \in {Absent, <<>>, DateValid, DateGarbage, DateHugeYear},
        lid \in {Absent, <<"<", "d", "e", "v", ".", "x", ".", "o", "r", "g", ">">>},
        lpost \in {Absent, <<"<", "m", "a", "i", "l", "t", "o", ":", "d", "e", "v", "@", "x", ".", "o", "r", "g", ">">>}}

\* a few messages, for runs over several of them
MsgA == SinglePart(FullHeaders(MessageIdA), SmallBody)
MsgNoId == SinglePart(FullHeaders(Absent), SmallBody)
MsgBadDate == SinglePart([FullHeaders(MessageIdA) EXCEPT !["Date"] = DateHugeYear], SmallBody)
Msg8bit == SinglePart([FullHeaders(MessageIdB) EXCEPT !["In-Reply-To"] = Header8bit], SmallBody)

FewMessages == {MsgA, MsgNoId, Msg8bit}

\* the sequences over S of length 1..n
SeqsUpTo(S, n) == UNION {[1..k -> S] : k \in 1..n}

-----------------------------------------------------------------------------
(* State machine: one process normalizing messages *)

NotParsed == [exc |-> "<not run>", record |-> None]

NoAnalysis == [total_lines |-> 0, quoted_lines |-> 0, effective_lines |-> 0,
               quote_percentage |-> <<0, 1>>, body_effective |-> <<>>]

\* the state when the process has started and config.py has been imported
ProcessStart(keys, msgs, body, threshold) ==
    /\ config_keys = keys
    /\ maven_projects = [config_loaded |-> FALSE, config |-> <<>>,
                         pattern_built |-> FALSE, jira_pattern |-> <<>>]
    /\ email_parser = [built |-> FALSE, jira_pattern |-> <<>>, quote_threshold |-> DefaultThreshold]
    /\ run = 1
    /\ inbox = msgs
    /\ records = [i \in DOMAIN msgs |-> NotParsed]
    /\ previous = [i \in DOMAIN msgs |-> NotParsed]
    /\ body_text = body
    /\ quote_threshold = threshold
    /\ analysis = NoAnalysis
    /\ mostly = FALSE
    /\ effective_again = <<>>
    /\ done = {}

\* no index_mbox_file call is under way
IndexerIdle ==
    /\ mbox_exists = TRUE
    /\ batch_size = 1
    /\ create_index = FALSE
    /\ index_exists = FALSE
    /\ index_docs = <<>>
    /\ pc = "idle"
    /\ pos = 0
    /\ yielded = <<>>
    /\ counts = [message_count |-> 0, error_count |-> 0, email_count |-> 0,
                 yield_error_count |-> 0]
    /\ log = <<>>
    /\ batch = <<>>
    /\ stats = [indexed |-> 0, errors |-> 0, skipped |-> 0]
    /\ bulk_calls = <<>>
    /\ client_connected = TRUE

batchVars == <<mbox_exists, batch_size, create_index, index_exists, index_docs, pc, pos,
               yielded, counts, log, batch, stats, bulk_calls, client_connected>>

textVars == <<call_arg, call_out, called>>

serviceVars == <<client_closed, backend_up, requests, tasks, directory, archive_lookups, calls>>

\* index_directory is not under way
NoDirectory == [pc |-> "idle", create_index |-> FALSE, mbox_files |-> <<>>, at |-> 0,
                total_stats |-> [files |-> 0, indexed |-> 0, errors |-> 0]]

\* a backend that answers, and no client, tool or resolver call so far
NoService ==
    /\ client_closed = FALSE
    /\ backend_up = TRUE
    /\ requests = <<>>
    /\ tasks = <<>>
    /\ directory = NoDirectory
    /\ archive_lookups = 0
    /\ calls = <<>>

\* no extractor function has been called on its own
NoCall ==
    /\ call_arg = <<>>
    /\ call_out = <<>>
    /\ called = ""

quoteVars == <<body_text, quote_threshold, analysis, mostly, effective_again, done>>

\* EmailParser.__init__ (MetadataExtractor.__init__ asks maven_projects for
\* the matcher, QuoteDetector() takes the default threshold)
EmailParser ==
    \E mp \in {get_jira_pattern(maven_projects, config_keys)} :
        /\ maven_projects' = mp
        /\ email_parser' = [built |-> TRUE, jira_pattern |-> mp.jira_pattern,
                            quote_threshold |-> DefaultThreshold]
        /\ UNCHANGED <<config_keys, hash_seed, run, inbox, records, previous, quoteVars,
                       batchVars, textVars, serviceVars>>

\* the first EmailParser of the process is constructed
ConstructParser ==
    /\ ~email_parser.built
    /\ EmailParser

\* another EmailParser is constructed later in the same process (MboxParser and
\* EmailIndexer each construct their own) and is the one used from then on
ConstructAnotherParser ==
    /\ email_parser.built
    /\ EmailParser

\* the project configuration file is edited while the process runs
EditConfigFile ==
    /\ \E keys \in KeyLists : keys # config_keys /\ config_keys' = keys
    /\ UNCHANGED <<maven_projects, email_parser, hash_seed, run, inbox, records, previous, quoteVars, batchVars, textVars, serviceVars>>

\* the source file name handed to parse as provenance
MboxFileName == <<"m", ".", "m", "b", "o", "x">>

\* EmailParser.parse(inbox[i], mbox_file, mbox_offset=i)
Parse(i) ==
    /\ email_parser.built
    /\ records[i] = NotParsed
    /\ records' = [records EXCEPT ![i] = parse(inbox[i], MboxFileName, i, email_parser, hash_seed)]
    /\ UNCHANGED <<config_keys, maven_projects, email_parser, hash_seed, run, inbox, previous,
                   quoteVars, batchVars, textVars, serviceVars>>

\* the process ends and a new one starts over the same messages (as the
\* periodic update does): new hash key, nothing built yet
NewProcess ==
    /\ run < MaxRuns
    /\ \A i \in DOMAIN inbox : records[i] # NotParsed
    /\ run' = run + 1
    /\ \E seed \in 0..MaxSeed : hash_seed' = seed
    /\ maven_projects' = [config_loaded |-> FALSE, config |-> <<>>,
                          pattern_built |-> FALSE, jira_pattern |-> <<>>]
    /\ email_parser' = [built |-> FALSE, jira_pattern |-> <<>>, quote_threshold |-> DefaultThreshold]
    /\ previous' = records
    /\ records' = [i \in DOMAIN inbox |-> NotParsed]
    /\ UNCHANGED <<config_keys, inbox, quoteVars, batchVars, textVars, serviceVars>>

parseVars == <<config_keys, maven_projects, email_parser, hash_seed, run, inbox, records, previous>>

\* QuoteDetector().analyze(text)
Analyze ==
    /\ "analyze" \notin done
    /\ analysis' = analyze(body_text)
    /\ done' = done \cup {"analyze"}
    /\ UNCHANGED <<parseVars, batchVars, body_text, quote_threshold, mostly, effective_again, textVars, serviceVars>>

\* extract_effective_content called on the effective body analyze returned
ExtractAgain ==
    /\ "analyze" \in done /\ "extract_again" \notin done
    /\ effective_again' = extract_effective_content(analysis.body_effective)
    /\ done' = done \cup {"extract_again"}
    /\ UNCHANGED <<parseVars, batchVars, body_text, quote_threshold, analysis, mostly, textVars, serviceVars>>

\* QuoteDetector(quote_threshold=threshold).is_mostly_quoted(text)
IsMostlyQuoted(threshold) ==
    /\ "extract_again" \in done /\ "is_mostly_quoted" \notin done
    /\ quote_threshold' = threshold
    /\ mostly' = is_mostly_quoted(body_text, threshold)
    /\ done' = done \cup {"is_mostly_quoted"}
    /\ UNCHANGED <<parseVars, batchVars, body_text, analysis, effective_again, textVars, serviceVars>>

\* The quote detector on every body text, alone and inside parse
InitQuote ==
    /\ hash_seed = 0
    /\ \E body \in Bodies :
          ProcessStart(<<KeyMNG>>, <<QuoteMessage(body)>>, body, DefaultThreshold)
    /\ IndexerIdle
    /\ NoCall
    /\ NoService

NextQuote ==
    \/ ConstructParser
    \/ Parse(1)
    \/ records[1] # NotParsed /\ Analyze
    \/ ExtractAgain
    \/ \E threshold \in Thresholds : IsMostlyQuoted(threshold)

SpecQuote == InitQuote /\ [][NextQuote]_vars

\* The normalizer on one message with any of its headers missing
InitParse ==
    /\ hash_seed \in 0..MaxSeed
    /\ \E m \in HeaderMessages : ProcessStart(<<KeyMNG, KeyMD>>, <<m>>, <<>>, DefaultThreshold)
    /\ IndexerIdle
    /\ NoCall
    /\ NoService

NextParse ==
    \/ ConstructParser
    \/ \E i \in DOMAIN inbox : Parse(i)

SpecParse == InitParse /\ [][NextParse]_vars

\* One parser normalizing several messages in any order
InitMany ==
    /\ hash_seed = 0
    /\ \E keys \in KeyLists : \E msgs \in SeqsUpTo(FewMessages, MaxInbox) :
          ProcessStart(keys, msgs, <<>>, DefaultThreshold)
    /\ IndexerIdle
    /\ NoCall
    /\ NoService

NextMany ==
    \/ ConstructParser
    \/ ConstructAnotherParser
    \/ EditConfigFile
    \/ \E i \in DOMAIN inbox : Parse(i)
    \/ NewProcess

SpecMany == InitMany /\ [][NextMany]_vars

-----------------------------------------------------------------------------
(* State machine: EmailIndexer.index_mbox_file over one mbox file *)

\* the list_name argument of index_mbox_file
ListName == <<"d", "e", "v", "@", "x", ".", "o", "r", "g">>

\* datetime.isoformat()
isoformat(date) == <<"<iso>">> \o Tail(date)

\* EmailIndexer._parsed_email_to_doc (indexed_at is the time of the run)
_parsed_email_to_doc(email, list_name, now) ==
    LET final_list_address ==
            IF email.list_address = None \/ email.list_address = <<>> THEN list_name
            ELSE email.list_address
        at == Find(final_list_address, <<"@">>, 1)
        list_name_part ==
            IF final_list_address = <<>> THEN None
            ELSE IF at = 0 THEN final_list_address
            ELSE SubSeq(final_list_address, 1, at - 1)
    IN  [message_id |-> email.message_id,
         in_reply_to |-> email.in_reply_to,
         references |-> email.references,
         from_address |-> email.from_address,
         from_name |-> email.from_name,
         to |-> email.to,
         cc |-> email.cc,
         subject |-> email.subject,
         body_full |-> email.body_full,
         body_effective |-> email.body_effective,
         date |-> IF email.date = None THEN None ELSE isoformat(email.date),
         indexed_at |-> now,
         list_address |-> final_list_address,
         list_name |-> list_name_part,
         jira_references |-> email.jira_references,
         quote_percentage |-> email.quote_percentage,
         is_mostly_quoted |-> email.is_mostly_quoted,
         has_attachment |-> email.has_attachment,
         mbox_file |-> email.mbox_file,
         mbox_offset |-> email.mbox_offset]

\* the entry index_mbox_file appends to the batch for one record: the
\* document, under the record's message_id
BatchEntry_by_subject(parsed_email, list_name, now) ==
    [_id |-> parsed_email.subject,
     _source |-> _parsed_email_to_doc(parsed_email, list_name, now)]
BatchEntry(parsed_email, list_name, now) ==
    [_id |-> parsed_email.message_id,
     _source |-> _parsed_email_to_doc(parsed_email, list_name, now)]

\* ElasticsearchClient.bulk_index(list_name, documents) when the backend
\* rejects the documents at the positions in failed: [exc, success, errors];
\* async_bulk raises when the backend does not answer
bulk_index(connected, up, documents, failed) ==
    IF ~connected THEN [exc |-> "RuntimeError", success |-> 0, errors |-> {}]
    ELSE IF ~up THEN [exc |-> "ConnectionError", success |-> 0, errors |-> {}]
    ELSE [exc |-> "", success |-> Len(documents) - Cardinality(failed), errors |-> failed]

\* the index after the bulk request: a document written under an id replaces
\* the one stored under it, the last of the request winning
IndexAfterBulk(docs, documents, result) ==
    LET written == {i \in DOMAIN documents : result.exc = "" /\ i \notin result.errors}
        ids     == {documents[i]._id : i \in written}
    IN  [id \in DOMAIN docs \cup ids |->
            IF id \in ids
            THEN documents[Max({i \in written : documents[i]._id = id})]._source
            ELSE docs[id]]

\* the try block around bulk_index in index_mbox_file: stats afterwards
StatsAfterBulk_forgetting_raised(st, documents, result) ==
    IF result.exc # ""
    THEN st
    ELSE [st EXCEPT !.indexed = @ + result.success,
                    !.errors = @ + Cardinality(result.errors)]
StatsAfterBulk(st, documents, result) ==
    IF result.exc # ""
    THEN [st EXCEPT !.errors = @ + Len(documents)]
    ELSE [st EXCEPT !.indexed = @ + result.success,
                    !.errors = @ + Cardinality(result.errors)]

LogEvent(event, key, messages, errors) ==
    [event |-> event, key |-> key, messages |-> messages, errors |-> errors]

\* parse_file, one message: what the generator has yielded once the message
\* is dealt with (a record that parse returned is yielded, an exception of
\* parse is caught and nothing is yielded)
yield_forgetting(out, parsed) ==
    IF parsed.exc # "" THEN <<>> ELSE Append(out, parsed.record)
yield_parsed(out, parsed) ==
    IF parsed.exc # "" THEN out ELSE Append(out, parsed.record)

\* 'if not self._client: raise RuntimeError(...)' and then one request through
\* self._client: the request is sent, or an exception is raised instead. What
\* an AsyncElasticsearch does with a request after its close() is the
\* library's business: it sends it over a new session or refuses it
RequestOutcomes(connected, closed, up) ==
    IF ~connected THEN {"RuntimeError"}
    ELSE IF ~up THEN {"ConnectionError"}
    ELSE IF closed THEN {"sent", "ConnectionError"}
    ELSE {"sent"}

\* list_indices catches what its request raises and returns []; the other
\* operations let it propagate
ExcOf(op, outcome) ==
    IF outcome = "sent" \/ (op = "list_indices" /\ outcome # "RuntimeError") THEN ""
    ELSE outcome

\* the call resumes with the answer: it returns False, or it sends
\* indices.create, which the backend refuses for an index that exists
create_index_resumed(frame, exists_now, outcome) ==
    IF frame.exists THEN [frame EXCEPT !.pc = "returned", !.value = FALSE]
    ELSE IF outcome # "sent" THEN [frame EXCEPT !.pc = "raised", !.exc = outcome]
    ELSE IF exists_now THEN [frame EXCEPT !.pc = "raised", !.exc = "BadRequestError"]
    ELSE [frame EXCEPT !.pc = "returned", !.value = TRUE, !.created = TRUE]

\* create_index(list_name) with no other call between its two requests, on a
\* client that has not been closed: the frame of the call when it is over
create_index_call(connected, up, exists) ==
    LET outcome == CHOOSE o \in RequestOutcomes(connected, FALSE, up) : TRUE
        begun == [pc |-> IF outcome = "sent" THEN "awaits_exists" ELSE "raised",
                  connected |-> connected, closed |-> FALSE, exists |-> exists,
                  exc |-> ExcOf("create_index", outcome), value |-> FALSE, created |-> FALSE]
    IN  IF outcome = "sent" THEN create_index_resumed(begun, exists, outcome) ELSE begun

\* index_mbox_file is called: create_index when asked, then the first pull
\* from process_mbox_file, where parse_file checks that the file exists
StartIndexing ==
    /\ pc = "idle"
    /\ email_parser.built
    /\ \E created \in {create_index_call(client_connected, backend_up, index_exists)} :
          /\ tasks' = IF create_index THEN Append(tasks, created) ELSE tasks
          /\ IF create_index /\ created.pc = "raised"
             THEN /\ pc' = "raised"
                  /\ UNCHANGED <<index_exists, log>>
             ELSE /\ index_exists' = (index_exists \/ create_index)
                  /\ IF ~mbox_exists
                     THEN pc' = "raised" /\ UNCHANGED log
                     ELSE /\ pc' = "iterate"
                          /\ log' = Append(log, LogEvent("parsing_mbox_file", -1, 0, 0))
    /\ UNCHANGED <<parseVars, quoteVars, mbox_exists, batch_size, create_index, index_docs,
                   pos, yielded, counts, batch, stats, bulk_calls, client_connected, textVars,
                   client_closed, backend_up, requests, directory, archive_lookups, calls>>

\* one turn of the loop of parse_file, and of the loops of process_mbox_file
\* and index_mbox_file that consume what it yields
IterateMessage ==
    /\ pc = "iterate"
    /\ pos < Len(inbox)
    /\ \E parsed \in {parse(inbox[pos + 1], MboxFileName, pos, email_parser, hash_seed)} :
          /\ pos' = pos + 1
          /\ records' = [records EXCEPT ![pos + 1] = parsed]
          /\ IF parsed.exc # ""
             THEN /\ counts' = [counts EXCEPT !.error_count = @ + 1]
                  /\ log' = Append(log, LogEvent("message_parse_failed", pos, 0, 0))
                  /\ yielded' = yield_parsed(yielded, parsed)
                  /\ UNCHANGED <<batch, stats, bulk_calls, index_docs, index_exists>>
             ELSE \E full \in {Append(batch, BatchEntry(parsed.record, ListName, run))} :
                     /\ counts' = [counts EXCEPT !.message_count = @ + 1, !.email_count = @ + 1]
                     /\ yielded' = yield_parsed(yielded, parsed)
                     /\ UNCHANGED log
                     /\ IF Len(full) >= batch_size
                        THEN \E failed \in SUBSET DOMAIN full :
                               \E result \in {bulk_index(client_connected, backend_up, full, failed)} :
                                  /\ (result.exc # "" => failed = {})
                                  /\ stats' = StatsAfterBulk(stats, full, result)
                                  /\ index_docs' = IndexAfterBulk(index_docs, full, result)
                                  /\ index_exists' = (index_exists \/ result.success > 0)
                                  /\ bulk_calls' = Append(bulk_calls,
                                         [documents |-> full, result |-> result])
                                  /\ batch' = <<>>
                        ELSE /\ batch' = full
                             /\ UNCHANGED <<stats, bulk_calls, index_docs, index_exists>>
    /\ UNCHANGED <<config_keys, maven_projects, email_parser, hash_seed, run, inbox, previous,
                   quoteVars, mbox_exists, batch_size, create_index, pc, client_connected, textVars, serviceVars>>

\* the mailbox is exhausted: parse_file and process_mbox_file log their
\* counters, index_mbox_file indexes what is left and returns stats
FinishIndexing ==
    /\ pc = "iterate"
    /\ pos = Len(inbox)
    /\ log' = log \o <<LogEvent("mbox_parsing_complete", -1, counts.message_count,
                                 counts.error_count),
                        LogEvent("mbox_processing_complete", -1, counts.email_count,
                                 counts.yield_error_count)>>
    /\ IF batch # <<>>
       THEN \E failed \in SUBSET DOMAIN batch :
               \E result \in {bulk_index(client_connected, backend_up, batch, failed)} :
                   /\ (result.exc # "" => failed = {})
                   /\ stats' = StatsAfterBulk(stats, batch, result)
                   /\ index_docs' = IndexAfterBulk(index_docs, batch, result)
                   /\ index_exists' = (index_exists \/ result.success > 0)
                   /\ bulk_calls' = Append(bulk_calls, [documents |-> batch, result |-> result])
       ELSE UNCHANGED <<stats, bulk_calls, index_docs, index_exists>>
    /\ pc' = "returned"
    /\ UNCHANGED <<parseVars, quoteVars, mbox_exists, batch_size, create_index, pos, yielded,
                   counts, batch, client_connected, textVars, serviceVars>>

MaxMailbox == 3
MaxBatch == 2

\* the messages of the mailboxes indexed: one that parses, one without a
\* Message-ID, one whose Date makes parse raise
BatchMessages == {MsgA, MsgNoId, MsgBadDate}

\* the sequences over S of length 0..n
SeqsFromEmpty(S, n) == UNION {[1..k -> S] : k \in 0..n}

InitBatch ==
    /\ hash_seed = 0
    /\ \E msgs \in SeqsFromEmpty(BatchMessages, MaxMailbox) :
          ProcessStart(<<KeyMNG, KeyMD>>, msgs, <<>>, DefaultThreshold)
    /\ mbox_exists \in BOOLEAN
    /\ batch_size \in 1..MaxBatch
    /\ create_index \in BOOLEAN
    /\ index_exists = FALSE
    /\ client_connected \in BOOLEAN
    /\ index_docs = <<>>
    /\ pc = "idle"
    /\ pos = 0
    /\ yielded = <<>>
    /\ counts = [message_count |-> 0, error_count |-> 0, email_count |-> 0,
                 yield_error_count |-> 0]
    /\ log = <<>>
    /\ batch = <<>>
    /\ stats = [indexed |-> 0, errors |-> 0, skipped |-> 0]
    /\ bulk_calls = <<>>
    /\ NoCall
    /\ NoService

NextBatch ==
    \/ ConstructParser
    \/ StartIndexing
    \/ IterateMessage
    \/ FinishIndexing

SpecBatch == InitBatch /\ [][NextBatch]_vars

-----------------------------------------------------------------------------
(* State machine: one extractor function called on one text *)

\* a process in which one function is about to be called on one of texts
CallOn(keys, texts) ==
    /\ hash_seed = 0
    /\ ProcessStart(keys, <<>>, <<>>, DefaultThreshold)
    /\ IndexerIdle
    /\ call_arg \in texts
    /\ call_out = <<>>
    /\ called = ""
    /\ NoService

\* what a call leaves alone
callFrame == <<call_arg, parseVars, quoteVars, batchVars, serviceVars>>

RECURSIVE ConcatsUpTo(_, _)
\* the concatenations of at most n members of chunks
ConcatsUpTo(chunks, n) ==
    IF n = 0 THEN {<<>>}
    ELSE LET shorter == ConcatsUpTo(chunks, n - 1)
         IN  shorter \cup {t \o c : t \in shorter, c \in chunks}

MaxLineChunks == 3

\* pieces of single lines (a line never holds a newline: lines come from
\* text.split('\n'))
LineChunks == {<<"O", "n", " ">>, <<"a">>, <<" ", "w", "r", "o", "t", "e", ":">>, <<">">>, <<"|">>, <<" ">>, <<"F", "r", "o", "m", ":">>, <<"s", "e", "n", "t", ":">>, <<"\t">>}

Lines == ConcatsUpTo(LineChunks, MaxLineChunks)

\* QuoteDetector().is_quote_line(line)
IsQuoteLine ==
    /\ called = ""
    /\ called' = "is_quote_line"
    /\ call_out' = is_quote_line(call_arg)
    /\ UNCHANGED callFrame

InitLine == CallOn(<<KeyMNG>>, Lines)

NextLine == IsQuoteLine

SpecLine == InitLine /\ [][NextLine]_vars

MaxSigChunks == 3

\* pieces of texts with and without signature markers
SigChunks == {<<"-", "-">>, <<"_", "_", "_">>, <<"_">>, <<"-">>, <<"T", "h", "a", "n", "k", "s">>, <<"B", "e", "s", "t", " ">>, <<"r", "e", "g", "a", "r", "d", "s">>, <<"c", "h", "e", "e", "r", "s">>, <<"a">>, <<" ">>, <<"\n">>, <<"\n", "-", "-">>}

SigTexts == ConcatsUpTo(SigChunks, MaxSigChunks)

\* QuoteDetector().remove_signature(text)
RemoveSignature ==
    /\ called = ""
    /\ called' = "remove_signature"
    /\ call_out' = remove_signature(call_arg)
    /\ UNCHANGED callFrame

InitSignature == CallOn(<<KeyMNG>>, SigTexts)

NextSignature == RemoveSignature

SpecSignature == InitSignature /\ [][NextSignature]_vars

-----------------------------------------------------------------------------
(* State machine: MetadataExtractor.extract called on one text *)

\* the configured key lists of the extractor, the configuration without keys included
JiraKeyLists == KeyLists \cup {<<>>}

\* the longest text, in pieces
MaxExtractChunks == 3

\* pieces of texts with issue references
JiraChunks ==
    {<<"M", "N", "G", "-", "1">>,
     <<"M", "D", "-", "2">>,
     <<"A", "B", "C", "-", "1", "2", "3">>,
     <<"M", "N", "G", "-">>,
     <<"1">>,
     <<" ">>,
     <<"x">>,
     <<"-">>}

JiraTexts == ConcatsUpTo(JiraChunks, MaxExtractChunks)

\* pieces of texts with pull request references
PRChunks ==
    {<<"#">>,
     <<"1">>,
     <<"2", "3">>,
     <<"#", "7">>,
     <<"f", "f", "0", "0", "0", "0">>,
     <<"b", "u", "g">>,
     <<" ">>,
     <<"a">>}

PRTexts == ConcatsUpTo(PRChunks, MaxExtractChunks)

\* pieces of texts with commit hashes
CommitChunks ==
    {<<"a", "b", "c", "1", "2", "3", "4">>,
     <<"A", "B", "C", "1", "2">>,
     <<"f", "f", "f", "f", "f", "f", "f">>,
     <<"0", "0", "0", "0", "0", "0", "0">>,
     <<"d", "e", "a", "d", "b", "e", "e", "f">>,
     <<"D", "E", "A", "D", "B", "E", "E", "F">>,
     <<"0", "1", "2", "3", "4", "5", "6", "7", "8", "9", "a", "b", "c", "d", "e", "f", "0", "1", "2", "3">>,
     <<" ">>,
     <<"g">>}

CommitTexts == ConcatsUpTo(CommitChunks, MaxExtractChunks)

\* the text of the version example
UpgradeText == <<"U", "p", "g", "r", "a", "d", "e", " ", "f", "r", "o", "m", " ", "3", ".", "8", ".", "6", " ", "t", "o", " ", "3", ".", "9", ".", "5">>

\* pieces of texts with version numbers
VersionChunks ==
    {<<"3", ".", "8">>,
     <<".", "6">>,
     <<"1", "0", ".", "0">>,
     <<"3", "1", ".", "0">>,
     <<"3", "2", ".", "1">>,
     <<"-", "r", "c", "1">>,
     <<"-", "M">>,
     <<"-", "2">>,
     <<" ">>,
     <<"x">>}

VersionTexts == ConcatsUpTo(VersionChunks, MaxExtractChunks) \cup {UpgradeText}

\* pieces of texts with vote markers and vote values
VoteChunks ==
    {<<"[", "V", "O", "T", "E", "]">>,
     <<"[", "r", "e", "s", "u", "l", "t", "]">>,
     <<"+", "1">>,
     <<"-", "0">>,
     <<"1">>,
     <<" ">>,
     <<"\n">>,
     <<"x">>}

VoteTexts == ConcatsUpTo(VoteChunks, MaxExtractChunks)

\* MetadataExtractor.extract(call_arg), with the matcher the parser was built with
Extract ==
    /\ email_parser.built
    /\ called = ""
    /\ called' = "extract"
    /\ call_out' \in extract(email_parser.jira_pattern, call_arg)
    /\ UNCHANGED callFrame

InitExtract ==
    \/ \E keys \in JiraKeyLists : CallOn(keys, JiraTexts)
    \/ CallOn(<<KeyMNG>>, PRTexts \cup CommitTexts \cup VersionTexts \cup VoteTexts)

NextExtract == ConstructParser \/ Extract

SpecExtract == InitExtract /\ [][NextExtract]_vars

-----------------------------------------------------------------------------
(* State machine: the normalizer on messages of any structure and list headers *)

\* values of the List-Post header
ListPosts ==
    {Absent, <<>>,
     <<"<", "m", "a", "i", "l", "t", "o", ":", "d", "e", "v", "@", "x", ".", "o", "r", "g", ">">>,
     <<" ", "<", "m", "a", "i", "l", "t", "o", ":", "d", "e", "v", "@", "x", ".", "o", "r", "g", ">", " ">>,
     <<"<", "m", "a", "i", "l", "t", "o", ":", ">">>,
     <<"<", "m", "a", "i", "l", "t", "o", ":", "d", "e", "v", "@", "x", ".", "o", "r", "g">>,
     <<"m", "a", "i", "l", "t", "o", ":", "d", "e", "v", "@", "x", ".", "o", "r", "g">>,
     <<"<", "h", "t", "t", "p", "s", ":", "/", "/", "x", ".", "o", "r", "g", "/", "p", "o", "s", "t", ">">>,
     <<"N", "O">>}

\* values of the List-Id header
ListIds ==
    {Absent,
     <<"<", "d", "e", "v", ".", "x", ".", "o", "r", "g", ">">>,
     <<"D", "e", "v", " ", "<", "d", "e", "v", ".", "x", ".", "o", "r", "g", ">">>,
     <<"<", "d", "e", "v", ">">>,
     <<"d", "e", "v", ".", "x", ".", "o", "r", "g">>,
     <<"<", ">">>}

\* single-part messages with every combination of the two list headers
ListMessages ==
    {SinglePart([FullHeaders(MessageIdA) EXCEPT !["List-Id"] = lid, !["List-Post"] = lpost],
                SmallBody) : lid \in ListIds, lpost \in ListPosts}

\* the most sub-parts of a multi-part message
MaxParts == 2

\* the parts without sub-parts: content type and disposition
Leaves ==
    {[content_type |-> ct, disposition |-> cd, charset |-> "", payload |-> <<"h", "i">>] :
        ct \in {"text/plain", "text/html", "application/pdf"},
        cd \in {"", "inline", "attachment"}}

\* the content types of a multi-part message
Containers == {"multipart/mixed", "multipart/alternative", "multipart/related"}

\* the messages made of one part, and those made of a container and its
\* sub-parts; parts is message.walk()
PartMessages ==
    {[headers |-> FullHeaders(MessageIdA), multipart |-> FALSE, parts |-> <<leaf>>] :
        leaf \in Leaves}
    \cup
    {[headers |-> FullHeaders(MessageIdA), multipart |-> TRUE,
      parts |-> <<[content_type |-> ct, disposition |-> "", charset |-> "",
                   payload |-> <<>>]>> \o subparts] :
        ct \in Containers, subparts \in SeqsUpTo(Leaves, MaxParts)}

InitStructure ==
    /\ hash_seed = 0
    /\ \E m \in ListMessages \cup PartMessages :
          ProcessStart(<<KeyMNG>>, <<m>>, <<>>, DefaultThreshold)
    /\ IndexerIdle
    /\ NoCall
    /\ NoService

SpecStructure == InitStructure /\ [][NextParse]_vars

-----------------------------------------------------------------------------
(* State machine: the same mbox file indexed again by later processes *)

\* update-current-month runs again: a new process (new hash key, nothing
\* built yet) indexes the same file into the index the earlier runs filled
RunAgain ==
    /\ pc = "returned"
    /\ run < MaxRuns
    /\ run' = run + 1
    /\ \E seed \in 0..MaxSeed : hash_seed' = seed
    /\ maven_projects' = [config_loaded |-> FALSE, config |-> <<>>,
                          pattern_built |-> FALSE, jira_pattern |-> <<>>]
    /\ email_parser' = [built |-> FALSE, jira_pattern |-> <<>>, quote_threshold |-> DefaultThreshold]
    /\ previous' = records
    /\ records' = [i \in DOMAIN inbox |-> NotParsed]
    /\ pc' = "idle"
    /\ pos' = 0
    /\ yielded' = <<>>
    /\ counts' = [message_count |-> 0, error_count |-> 0, email_count |-> 0,
                  yield_error_count |-> 0]
    /\ log' = <<>>
    /\ batch' = <<>>
    /\ stats' = [indexed |-> 0, errors |-> 0, skipped |-> 0]
    /\ bulk_calls' = <<>>
    /\ UNCHANGED <<config_keys, inbox, quoteVars, textVars, serviceVars, mbox_exists, batch_size,
                   create_index, index_exists, index_docs, client_connected>>

InitReindex ==
    /\ hash_seed = 0
    /\ \E msgs \in SeqsUpTo({MsgA, MsgNoId}, MaxInbox) :
          ProcessStart(<<KeyMNG, KeyMD>>, msgs, <<>>, DefaultThreshold)
    /\ mbox_exists = TRUE
    /\ batch_size \in 1..MaxBatch
    /\ create_index = TRUE
    /\ index_exists = FALSE
    /\ client_connected = TRUE
    /\ index_docs = <<>>
    /\ pc = "idle"
    /\ pos = 0
    /\ yielded = <<>>
    /\ counts = [message_count |-> 0, error_count |-> 0, email_count |-> 0,
                 yield_error_count |-> 0]
    /\ log = <<>>
    /\ batch = <<>>
    /\ stats = [indexed |-> 0, errors |-> 0, skipped |-> 0]
    /\ bulk_calls = <<>>
    /\ NoCall
    /\ NoService

NextReindex == NextBatch \/ RunAgain

SpecReindex == InitReindex /\ [][NextReindex]_vars

-----------------------------------------------------------------------------
(* State machine: the get_message tool and PonymailResolver over a store *)

\* str.strip(chars)
StripChars(s, chars) ==
    LET ns == {i \in 1..Len(s) : s[i] \notin chars}
    IN  IF ns = {} THEN <<>> ELSE SubSeq(s, Min(ns), Max(ns))

\* s.startswith(w)
StartsWith(s, w) == StartsWithAt(s, 1, w)

\* w in s
Contains(s, w) == Find(s, w, 1) # 0

\* f"{value}" of a string or of None
Str(value) == IF value = None THEN <<"N", "o", "n", "e">> ELSE value

\* dict.get(key, default)
DictGet(dict, key, default) == IF key \in DOMAIN dict THEN dict[key] ELSE default

\* bool(value) of a string, a list or None
Truthy(value) == value # None /\ value # <<>>

\* f"<{message_id}>" if not message_id.startswith("<") else message_id
EnsureBrackets(message_id) ==
    IF StartsWith(message_id, <<"<">>) THEN message_id ELSE <<"<">> \o message_id \o <<">">>

\* ElasticsearchClient.get_document(list_name, message_id): [exc, value]; the
\* value holds the _source of the hit, and nothing (None) when the backend
\* knows no such id
get_document(connected, docs, message_id) ==
    IF ~connected THEN [exc |-> "RuntimeError", value |-> <<>>]
    ELSE IF message_id \in DOMAIN docs THEN [exc |-> "", value |-> <<docs[message_id]>>]
    ELSE [exc |-> "", value |-> <<>>]

\* ElasticsearchClient.update_document(list_name, message_id, partial_doc):
\* [exc, value, docs], the fields of partial_doc merged into the document
update_document(connected, docs, message_id, partial_doc) ==
    IF ~connected THEN [exc |-> "RuntimeError", value |-> FALSE, docs |-> docs]
    ELSE IF message_id \in DOMAIN docs
    THEN [exc |-> "", value |-> TRUE,
          docs |-> [docs EXCEPT ![message_id] =
                       [f \in DOMAIN @ \cup DOMAIN partial_doc |->
                           IF f \in DOMAIN partial_doc THEN partial_doc[f] ELSE @[f]]]]
    ELSE [exc |-> "", value |-> FALSE, docs |-> docs]

EmailMessageHeading == <<"=", "=", "=", " ", "E", "m", "a", "i", "l", " ", "M", "e", "s", "s", "a", "g", "e", " ", "=", "=", "=", "\n">>
MessageNotFound == <<"M", "e", "s", "s", "a", "g", "e", " ", "n", "o", "t", " ", "f", "o", "u", "n", "d", ":", " ">>

\* the lines get_message writes for the document source
MessageLines(source) ==
    <<EmailMessageHeading,
      <<"M", "e", "s", "s", "a", "g", "e", "-", "I", "D", ":", " ">> \o Str(DictGet(source, "message_id", <<"N", "/", "A">>)),
      <<"S", "u", "b", "j", "e", "c", "t", ":", " ">> \o Str(DictGet(source, "subject", <<"N", "/", "A">>)),
      <<"F", "r", "o", "m", ":", " ">> \o Str(DictGet(source, "from_name", <<"U", "n", "k", "n", "o", "w", "n">>)) \o <<" ", "<">>
          \o Str(DictGet(source, "from_address", <<"N", "/", "A">>)) \o <<">">>,
      <<"D", "a", "t", "e", ":", " ">> \o Str(DictGet(source, "date", <<"N", "/", "A">>))>>
    \o (IF Truthy(DictGet(source, "to", None))
        THEN <<<<"T", "o", ":", " ">> \o Join(source.to, <<",", " ">>)>> ELSE <<>>)
    \o (IF Truthy(DictGet(source, "cc", None))
        THEN <<<<"C", "c", ":", " ">> \o Join(source.cc, <<",", " ">>)>> ELSE <<>>)
    \o <<<<"\n", "L", "i", "s", "t", ":", " ">> \o Str(DictGet(source, "list_address", <<"N", "/", "A">>))>>
    \o (IF Truthy(DictGet(source, "in_reply_to", None))
        THEN <<<<"I", "n", "-", "R", "e", "p", "l", "y", "-", "T", "o", ":", " ">> \o source.in_reply_to>> ELSE <<>>)
    \o (IF Truthy(DictGet(source, "references", None))
        THEN <<<<"R", "e", "f", "e", "r", "e", "n", "c", "e", "s", ":", " ">>
               \o Join(SubSeq(source.references, 1, Min({3, Len(source.references)})), <<",", " ">>)>>
        ELSE <<>>)
    \o <<<<"\n", "-", "-", "-", " ", "M", "e", "t", "a", "d", "a", "t", "a", " ", "-", "-", "-">>>>
    \o (IF Truthy(DictGet(source, "jira_references", None))
        THEN <<<<"J", "I", "R", "A", ":", " ">> \o Join(source.jira_references, <<",", " ">>)>> ELSE <<>>)
    \o <<<<"\n", "Q", "u", "o", "t", "e", "d", " ", "C", "o", "n", "t", "e", "n", "t", ":", " ">> \o <<"<percent>">>,
         <<"\n", "-", "-", "-", " ", "M", "e", "s", "s", "a", "g", "e", " ", "B", "o", "d", "y", " ", "-", "-", "-">>,
         Str(DictGet(source, "body_effective", DictGet(source, "body_full", <<>>)))>>

\* tools.get_message(message_id, list_name), the client being the connected
\* one get_es_client returns: the text returned
get_message(message_id, docs) ==
    LET id     == EnsureBrackets(message_id)
        result == get_document(TRUE, docs, id)
    IN  IF result.exc # "" THEN <<"E", "r", "r", "o", "r", " ", "r", "e", "t", "r", "i", "e", "v", "i", "n", "g", " ", "m", "e", "s", "s", "a", "g", "e", ":", " ">> \o <<result.exc>>
        ELSE IF result.value = <<>> \/ "_source" \notin DOMAIN result.value[1]
        THEN MessageNotFound \o id
        ELSE Join(MessageLines(result.value[1]["_source"]), <<"\n">>)

PONYMAIL_THREAD_BASE == <<"h", "t", "t", "p", "s", ":", "/", "/", "l", "i", "s", "t", "s", ".", "a", "p", "a", "c", "h", "e", ".", "o", "r", "g", "/", "t", "h", "r", "e", "a", "d">>

\* ponymail.get_archive_url(mid)
get_archive_url(mid) == PONYMAIL_THREAD_BASE \o <<"/">> \o mid

\* lookup_mid_by_search(message_id, ...) when the Pony Mail API answers the
\* one request it makes with answer: an HTTP error, or the emails it found
lookup_mid_by_search(message_id, answer) ==
    LET normalized_mid == StripChars(message_id, {"<", ">"})
        hits == IF answer = "HTTPError" THEN {}
                ELSE {i \in DOMAIN answer :
                        StripChars(answer[i].message_id, {"<", ">"}) = normalized_mid}
    IN  IF hits = {} THEN None ELSE answer[Min(hits)].mid

\* PonymailResolver._get_cached_mid(message_id, list_name)
_get_cached_mid(connected, docs, message_id) ==
    LET doc == get_document(connected, docs, EnsureBrackets(message_id))
    IN  IF doc.exc = "" /\ doc.value # <<>> THEN DictGet(doc.value[1], "archive_mid", None)
        ELSE None

\* PonymailResolver._cache_mid(message_id, list_name, mid): the store afterwards
_cache_mid(connected, docs, message_id, mid) ==
    update_document(connected, docs, EnsureBrackets(message_id), [archive_mid |-> mid]).docs

\* PonymailResolver.resolve_url(message_id, list_name): the URL returned, the
\* store afterwards and the requests made to the store and to the Pony Mail API
resolve_url_without_cache(connected, docs, message_id, answer) ==
    LET normalized_mid == StripChars(message_id, {"<", ">"})
        doc_id == EnsureBrackets(normalized_mid)
        mid == lookup_mid_by_search(message_id, answer)
    IN  IF Truthy(mid)
        THEN [out |-> get_archive_url(mid),
              docs |-> _cache_mid(connected, docs, normalized_mid, mid),
              requests |-> <<[op |-> "get", id |-> doc_id],
                             [op |-> "update", id |-> doc_id]>>,
              lookups |-> 1]
        ELSE [out |-> None, docs |-> docs,
              requests |-> <<[op |-> "get", id |-> doc_id]>>, lookups |-> 1]
resolve_url(connected, docs, message_id, answer) ==
    LET normalized_mid == StripChars(message_id, {"<", ">"})
        doc_id == EnsureBrackets(normalized_mid)
        cached_mid == _get_cached_mid(connected, docs, normalized_mid)
        mid == lookup_mid_by_search(message_id, answer)
    IN  IF Truthy(cached_mid)
        THEN [out |-> get_archive_url(cached_mid), docs |-> docs,
              requests |-> <<[op |-> "get", id |-> doc_id]>>, lookups |-> 0]
        ELSE IF Truthy(mid)
        THEN [out |-> get_archive_url(mid),
              docs |-> _cache_mid(connected, docs, normalized_mid, mid),
              requests |-> <<[op |-> "get", id |-> doc_id],
                             [op |-> "update", id |-> doc_id]>>,
              lookups |-> 1]
        ELSE [out |-> None, docs |-> docs,
              requests |-> <<[op |-> "get", id |-> doc_id]>>, lookups |-> 1]

MaxCalls == 2

MessageIdC == <<"<", "c", "@", "x", ">">>

\* the Message-IDs the tools are called with: of stored and of unknown
\* messages, with and without the angle brackets
CalledIds == {MessageIdA, StripChars(MessageIdA, {"<", ">"}), MessageIdB,
              StripChars(MessageIdC, {"<", ">"})}

MidOne == <<"m", "1">>
MidTwo == <<"m", "2">>
MidCached == <<"m", "0">>

\* what the Pony Mail API may answer to a search
ArchiveAnswers ==
    {"HTTPError", <<>>,
     <<[message_id |-> StripChars(MessageIdA, {"<", ">"}), mid |-> MidOne]>>,
     <<[message_id |-> MessageIdC, mid |-> MidTwo], [message_id |-> MessageIdA, mid |-> MidTwo],
       [message_id |-> MessageIdB, mid |-> MidOne]>>}

\* the document index_mbox_file stores for a message
StoredDocument(msg) ==
    _parsed_email_to_doc(
        parse(msg, MboxFileName, 0,
              [built |-> TRUE,
               jira_pattern |-> get_jira_pattern(
                   [config_loaded |-> FALSE, config |-> <<>>,
                    pattern_built |-> FALSE, jira_pattern |-> <<>>],
                   <<KeyMNG, KeyMD>>).jira_pattern,
               quote_threshold |-> DefaultThreshold], 0).record,
        ListName, 1)

\* a document whose archive_mid has been cached
WithArchiveMid(doc, mid) ==
    [f \in DOMAIN doc \cup {"archive_mid"} |-> IF f = "archive_mid" THEN mid ELSE doc[f]]

\* the stores the tools may find: each of two messages not indexed, indexed,
\* or indexed with its archive_mid cached
Stores ==
    LET docA == StoredDocument(SinglePart(FullHeaders(MessageIdA), SmallBody))
        docB == StoredDocument(SinglePart(FullHeaders(MessageIdB), SmallBody))
        choices(id, doc) == {<<>>, [i \in {id} |-> doc],
                             [i \in {id} |-> WithArchiveMid(doc, MidCached)]}
    IN  {a @@ b : a \in choices(MessageIdA, docA), b \in choices(MessageIdB, docB)}

toolFrame == <<parseVars, quoteVars, textVars, mbox_exists, batch_size, create_index,
               index_exists, pc, pos, yielded, counts, log, batch, stats, bulk_calls,
               client_closed, backend_up, tasks, directory>>

\* the get_message tool is called; get_es_client connects the client of the
\* tools when there is none yet
GetMessage ==
    /\ Len(calls) < MaxCalls
    /\ \E message_id \in CalledIds :
          /\ calls' = Append(calls, [fn |-> "get_message", arg |-> message_id,
                                     out |-> get_message(message_id, index_docs),
                                     lookups |-> 0])
          /\ requests' = Append(requests, [op |-> "get", id |-> EnsureBrackets(message_id)])
    /\ client_connected' = TRUE
    /\ UNCHANGED <<toolFrame, index_docs, archive_lookups>>

\* resolve_url of a resolver over the connected client is called, and the
\* Pony Mail API answers what it answers
ResolveUrl ==
    /\ Len(calls) < MaxCalls
    /\ client_connected
    /\ \E message_id \in CalledIds, answer \in ArchiveAnswers :
          \E r \in {resolve_url(client_connected, index_docs, message_id, answer)} :
              /\ calls' = Append(calls, [fn |-> "resolve_url", arg |-> message_id,
                                         out |-> r.out, lookups |-> r.lookups])
              /\ index_docs' = r.docs
              /\ requests' = requests \o r.requests
              /\ archive_lookups' = archive_lookups + r.lookups
    /\ UNCHANGED <<toolFrame, client_connected>>

InitTools ==
    /\ hash_seed = 0
    /\ ProcessStart(<<KeyMNG, KeyMD>>, <<>>, <<>>, DefaultThreshold)
    /\ mbox_exists = TRUE
    /\ batch_size = 1
    /\ create_index = FALSE
    /\ index_exists = TRUE
    /\ index_docs \in Stores
    /\ client_connected \in BOOLEAN
    /\ pc = "idle"
    /\ pos = 0
    /\ yielded = <<>>
    /\ counts = [message_count |-> 0, error_count |-> 0, email_count |-> 0,
                 yield_error_count |-> 0]
    /\ log = <<>>
    /\ batch = <<>>
    /\ stats = [indexed |-> 0, errors |-> 0, skipped |-> 0]
    /\ bulk_calls = <<>>
    /\ NoCall
    /\ NoService

NextTools == GetMessage \/ ResolveUrl

SpecTools == InitTools /\ [][NextTools]_vars

-----------------------------------------------------------------------------
(* State machine: an ElasticsearchClient, its connection and its operations *)

\* the operations of ElasticsearchClient that make one request
ClientOperations == {"health", "index_exists", "list_indices", "index_document",
                     "bulk_index", "get_document", "update_document", "search"}

MaxTasks == 2
MaxClientCalls == 1

clientFrame == <<parseVars, quoteVars, textVars, mbox_exists, batch_size, create_index,
                 pc, pos, yielded, counts, log, batch, stats, bulk_calls, backend_up,
                 directory, archive_lookups>>

\* ElasticsearchClient.connect(): a new AsyncElasticsearch
Connect ==
    /\ client_connected' = TRUE
    /\ client_closed' = FALSE
    /\ UNCHANGED <<clientFrame, index_exists, index_docs, requests, tasks, calls>>

\* ElasticsearchClient.close(): the AsyncElasticsearch is closed and stays in
\* self._client
Close ==
    /\ client_closed' = client_connected
    /\ UNCHANGED <<clientFrame, client_connected, index_exists, index_docs, requests, tasks,
                   calls>>

\* one of the operations is called, for the document of one message
ClientCall ==
    /\ Len(calls) < MaxClientCalls
    /\ \E op \in ClientOperations :
        \E outcome \in RequestOutcomes(client_connected, client_closed, backend_up) :
          \E doc \in {StoredDocument(MsgA)} :
            /\ calls' = Append(calls, [fn |-> op, connected |-> client_connected,
                                       closed |-> client_closed,
                                       exc |-> ExcOf(op, outcome),
                                       sent |-> outcome = "sent"])
            /\ requests' = IF outcome = "sent"
                           THEN Append(requests, [op |-> op, closed |-> client_closed])
                           ELSE requests
            /\ index_docs' =
                  IF outcome # "sent" THEN index_docs
                  ELSE IF op \in {"index_document", "bulk_index"}
                  THEN [id \in DOMAIN index_docs \cup {doc.message_id} |->
                           IF id = doc.message_id THEN doc ELSE index_docs[id]]
                  ELSE IF op = "update_document"
                  THEN update_document(TRUE, index_docs, doc.message_id,
                                       [archive_mid |-> MidOne]).docs
                  ELSE index_docs
            /\ index_exists' = (index_exists
                                \/ (outcome = "sent" /\ op \in {"index_document", "bulk_index"}))
    /\ UNCHANGED <<clientFrame, client_connected, client_closed, tasks>>

\* create_index(list_name) is called: the test of self._client and the
\* indices.exists request, whose answer the call then awaits
BeginCreateIndex ==
    /\ Len(tasks) < MaxTasks
    /\ \E outcome \in RequestOutcomes(client_connected, client_closed, backend_up) :
          /\ tasks' = Append(tasks, [pc |-> IF outcome = "sent" THEN "awaits_exists" ELSE "raised",
                                     connected |-> client_connected, closed |-> client_closed,
                                     exists |-> index_exists, exc |-> ExcOf("create_index", outcome),
                                     value |-> FALSE, created |-> FALSE])
          /\ requests' = IF outcome = "sent"
                         THEN Append(requests, [op |-> "indices.exists", closed |-> client_closed])
                         ELSE requests
    /\ UNCHANGED <<clientFrame, client_connected, client_closed, index_exists, index_docs, calls>>

\* a create_index call resumes with the answer of indices.exists
ResumeCreateIndex ==
    \E t \in DOMAIN tasks :
        /\ tasks[t].pc = "awaits_exists"
        /\ \E outcome \in RequestOutcomes(TRUE, client_closed, backend_up) :
              /\ tasks' = [tasks EXCEPT ![t] = create_index_resumed(@, index_exists, outcome)]
              /\ requests' = IF ~tasks[t].exists /\ outcome = "sent"
                             THEN Append(requests, [op |-> "indices.create",
                                                    closed |-> client_closed])
                             ELSE requests
              /\ index_exists' = (index_exists \/ (~tasks[t].exists /\ outcome = "sent"))
        /\ UNCHANGED <<clientFrame, client_connected, client_closed, index_docs, calls>>

InitClient ==
    /\ hash_seed = 0
    /\ ProcessStart(<<KeyMNG, KeyMD>>, <<>>, <<>>, DefaultThreshold)
    /\ mbox_exists = TRUE
    /\ batch_size = 1
    /\ create_index = FALSE
    /\ index_exists \in BOOLEAN
    /\ index_docs = <<>>
    /\ client_connected = FALSE
    /\ pc = "idle"
    /\ pos = 0
    /\ yielded = <<>>
    /\ counts = [message_count |-> 0, error_count |-> 0, email_count |-> 0,
                 yield_error_count |-> 0]
    /\ log = <<>>
    /\ batch = <<>>
    /\ stats = [indexed |-> 0, errors |-> 0, skipped |-> 0]
    /\ bulk_calls = <<>>
    /\ NoCall
    /\ NoService

NextClient ==
    \/ Connect
    \/ Close
    \/ ClientCall
    \/ BeginCreateIndex
    \/ ResumeCreateIndex

SpecClient == InitClient /\ [][NextClient]_vars

-----------------------------------------------------------------------------
(* State machine: EmailIndexer.index_directory over the mbox files of a directory *)

MaxFiles == 2
MaxFileMessages == 1

\* the directories indexed: mbox_files, sorted, each file with its messages
Directories == SeqsFromEmpty(SeqsFromEmpty({MsgA, MsgNoId}, MaxFileMessages), MaxFiles)

\* index_directory is called: the files are listed and sorted, and without
\* files it returns at once
IndexDirectory ==
    /\ directory.pc = "idle"
    /\ email_parser.built
    /\ directory' = [directory EXCEPT
                        !.pc = IF directory.mbox_files = <<>> THEN "returned" ELSE "loop",
                        !.total_stats = [files |-> Len(directory.mbox_files),
                                         indexed |-> 0, errors |-> 0]]
    /\ UNCHANGED <<parseVars, quoteVars, batchVars, textVars, client_closed, backend_up,
                   requests, tasks, archive_lookups, calls>>

\* the loop takes the next file and calls index_mbox_file for it, asking for
\* the index only with the first file; the file may have gone since it was
\* listed
CallIndexMboxFile ==
    /\ directory.pc = "loop"
    /\ directory.at < Len(directory.mbox_files)
    /\ directory' = [directory EXCEPT !.pc = "file", !.at = @ + 1]
    /\ inbox' = directory.mbox_files[directory.at + 1]
    /\ records' = [i \in DOMAIN directory.mbox_files[directory.at + 1] |-> NotParsed]
    /\ previous' = [i \in DOMAIN directory.mbox_files[directory.at + 1] |-> NotParsed]
    /\ create_index' = (directory.create_index /\ directory.at + 1 = 1)
    /\ mbox_exists' \in BOOLEAN
    /\ pc' = "idle"
    /\ pos' = 0
    /\ yielded' = <<>>
    /\ counts' = [message_count |-> 0, error_count |-> 0, email_count |-> 0,
                  yield_error_count |-> 0]
    /\ log' = <<>>
    /\ batch' = <<>>
    /\ stats' = [indexed |-> 0, errors |-> 0, skipped |-> 0]
    /\ bulk_calls' = <<>>
    /\ UNCHANGED <<config_keys, maven_projects, email_parser, hash_seed, run, quoteVars,
                   textVars, batch_size, index_exists, index_docs, client_connected,
                   client_closed, backend_up, requests, tasks, archive_lookups, calls>>

\* total_stats after index_mbox_file has returned file_stats or has raised
total_stats_after(total_stats, raised, file_stats) ==
    IF raised THEN [total_stats EXCEPT !.errors = @ + 1]
    ELSE [total_stats EXCEPT !.indexed = @ + file_stats.indexed,
                             !.errors = @ + file_stats.errors]

\* index_mbox_file is over: its stats are added, or its exception is caught
\* and counted, and the loop goes on
FileDone ==
    /\ directory.pc = "file"
    /\ pc \in {"returned", "raised"}
    /\ directory' = [directory EXCEPT
                        !.pc = "loop",
                        !.total_stats = total_stats_after(@, pc = "raised", stats)]
    /\ UNCHANGED <<parseVars, quoteVars, batchVars, textVars, client_closed, backend_up,
                   requests, tasks, archive_lookups, calls>>

\* no file is left: index_directory returns total_stats
ReturnFromDirectory ==
    /\ directory.pc = "loop"
    /\ directory.at = Len(directory.mbox_files)
    /\ directory' = [directory EXCEPT !.pc = "returned"]
    /\ UNCHANGED <<parseVars, quoteVars, batchVars, textVars, client_closed, backend_up,
                   requests, tasks, archive_lookups, calls>>

\* the backend stops answering, or answers again
BackendChange ==
    /\ directory.pc \in {"loop", "file"}
    /\ backend_up' = ~backend_up
    /\ UNCHANGED <<parseVars, quoteVars, batchVars, textVars, client_closed,
                   requests, tasks, directory, archive_lookups, calls>>

InitDirectory ==
    /\ hash_seed = 0
    /\ ProcessStart(<<KeyMNG, KeyMD>>, <<>>, <<>>, DefaultThreshold)
    /\ mbox_exists = TRUE
    /\ batch_size \in 1..MaxBatch
    /\ create_index = FALSE
    /\ index_exists = FALSE
    /\ index_docs = <<>>
    /\ client_connected \in BOOLEAN
    /\ pc = "returned"   \* no index_mbox_file call is under way
    /\ pos = 0
    /\ yielded = <<>>
    /\ counts = [message_count |-> 0, error_count |-> 0, email_count |-> 0,
                 yield_error_count |-> 0]
    /\ log = <<>>
    /\ batch = <<>>
    /\ stats = [indexed |-> 0, errors |-> 0, skipped |-> 0]
    /\ bulk_calls = <<>>
    /\ NoCall
    /\ client_closed = FALSE
    /\ backend_up \in BOOLEAN
    /\ requests = <<>>
    /\ tasks = <<>>
    /\ \E files \in Directories, asked \in BOOLEAN :
          directory = [NoDirectory EXCEPT !.mbox_files = files, !.create_index = asked]
    /\ archive_lookups = 0
    /\ calls = <<>>

NextDirectory ==
    \/ ConstructParser
    \/ IndexDirectory
    \/ CallIndexMboxFile
    \/ StartIndexing
    \/ IterateMessage
    \/ FinishIndexing
    \/ FileDone
    \/ ReturnFromDirectory
    \/ BackendChange

SpecDirectory == InitDirectory /\ [][NextDirectory]_vars

-----------------------------------------------------------------------------
(* Claims *)

\* the messages handed to parse so far whose normalization raised
Failing == {i \in 1..pos : records[i].exc # ""}

\* the records of the messages handed to parse so far that parse returned, in
\* mailbox order
RECURSIVE GoodRecords(_)
GoodRecords(n) ==
    IF n = 0 THEN <<>>
    ELSE IF records[n].exc # "" THEN GoodRecords(n - 1)
    ELSE Append(GoodRecords(n - 1), records[n].record)

\* the keys of the messages logged as failed, in log order
RECURSIVE FailureKeys(_)
FailureKeys(n) ==
    IF n = 0 THEN <<>>
    ELSE IF log[n].event = "message_parse_failed" THEN Append(FailureKeys(n - 1), log[n].key)
    ELSE FailureKeys(n - 1)

RECURSIVE FailingKeys(_)
FailingKeys(n) ==
    IF n = 0 THEN <<>>
    ELSE IF records[n].exc # "" THEN Append(FailingKeys(n - 1), n - 1)
    ELSE FailingKeys(n - 1)

\* C1: whatever subset of the mailbox fails to normalize, parse_file yields
\* exactly the records of the other messages, each the normalization of its
\* message, in mailbox order; every failing message is logged with its key and
\* skipped; the iteration, once begun, never ends in an exception, and
\* index_mbox_file returns only when the mailbox is exhausted: no failure
\* aborts the batch.
C1_OneRecordPerGoodMessage ==
    /\ \A i \in 1..pos :
          records[i] = parse(inbox[i], MboxFileName, i - 1, email_parser, hash_seed)
    /\ yielded = GoodRecords(pos)
    /\ FailureKeys(Len(log)) = FailingKeys(pos)
    /\ pc = "iterate" => pos <= Len(inbox)
    /\ pc = "returned" => pos = Len(inbox)
    /\ pc = "raised" => pos = 0

\* a mailbox of three messages whose second fails has been read to the end,
\* and the first and the third were yielded
C1_Witness ==
    /\ pc = "returned"
    /\ Len(inbox) = 3
    /\ Failing = {2}
    /\ Len(yielded) = 2
    /\ yielded[2].mbox_offset = 2

\* index_mbox_file has returned and the backend accepted every document
CompletedCleanly ==
    /\ pc = "returned"
    /\ \A c \in DOMAIN bulk_calls :
          bulk_calls[c].result.exc = "" /\ bulk_calls[c].result.errors = {}

\* C3: when the batch has run to completion, the counts the caller receives
\* give the number of records yielded as parsed, the number of messages
\* skipped for a normalization failure as errors, and both add up to the
\* number of messages of the mailbox.
C3_CountsReachCaller ==
    CompletedCleanly =>
        /\ stats.indexed = Len(yielded)
        /\ stats.errors = Cardinality(Failing)
        /\ stats.indexed + stats.errors = Len(inbox)

\* the message has no Message-ID header, or a blank one
NoMessageId(msg) == Strip(Get(msg, "Message-ID", <<>>)) = <<>>

\* C2: a message without a Message-ID, or with a blank one, is parsed without
\* an exception and gets a placeholder id that is the same whenever the same
\* raw message is normalized again, in this process or in the next one.
C2_StablePlaceholderId ==
    \A i \in DOMAIN inbox :
        NoMessageId(inbox[i]) =>
            /\ records[i].exc \in {"<not run>", ""}
            /\ \A j \in DOMAIN inbox :
                  (inbox[j] = inbox[i] /\ records[i].exc = "" /\ records[j].exc = "") =>
                      records[j].record.message_id = records[i].record.message_id
            /\ (records[i].exc = "" /\ previous[i].exc = "") =>
                  records[i].record.message_id = previous[i].record.message_id

\* the headers parse reads, with the default of each when it is missing
MissingDefaultsHold(msg, r) ==
    /\ NoMessageId(msg) =>
          SubSeq(r.message_id, 1, Len(NoMessageIdPrefix)) = NoMessageIdPrefix
    /\ Get(msg, "In-Reply-To", <<>>) = <<>> => r.in_reply_to = None
    /\ Get(msg, "References", <<>>) = <<>> => r.references = <<>>
    /\ Get(msg, "From", <<>>) = <<>> => r.from_address = <<>> /\ r.from_name = None
    /\ Get(msg, "To", <<>>) = <<>> => r.to = <<>>
    /\ Get(msg, "Cc", <<>>) = <<>> => r.cc = <<>>
    /\ Get(msg, "Subject", None) = None => r.subject = NoSubject
    /\ Get(msg, "Date", DateValid) # DateValid => r.date = None
    /\ (Get(msg, "List-Id", <<>>) = <<>> /\ Get(msg, "List-Post", <<>>) = <<>>) =>
          r.list_address = None

\* C4: for a message with any subset of its optional headers missing, or with
\* a Date that cannot be parsed, parse raises nothing and returns a record in
\* which every missing value has its default and the unparseable date is null.
C4_NeverRaisesOnOptionalHeaders ==
    \A i \in DOMAIN inbox :
        records[i].exc # "<not run>" =>
            /\ records[i].exc = ""
            /\ MissingDefaultsHold(inbox[i], records[i].record)

\* the parser a process builds from the project keys it has loaded, used on
\* nothing else
ParserAlone ==
    [built |-> TRUE, jira_pattern |-> maven_projects.config,
     quote_threshold |-> DefaultThreshold]

C5_RecordsAsAlone ==
    \A i \in DOMAIN inbox :
        records[i].exc # "<not run>" =>
            records[i] = parse(inbox[i], MboxFileName, i, ParserAlone, hash_seed)

C5_MatcherKept ==
    (run' = run /\ maven_projects.pattern_built) =>
        /\ maven_projects'.pattern_built
        /\ maven_projects'.jira_pattern = maven_projects.jira_pattern
        /\ email_parser.built =>
              email_parser'.jira_pattern = email_parser.jira_pattern

\* C5: in whatever order the messages of a run are normalized, and whatever
\* parsers of the process normalize them, the record of each message is the
\* one obtained by normalizing it alone with the project keys the process
\* loaded; and within a process the JIRA matcher, once built, never changes.
C5_IndependentRecords == [](C5_RecordsAsAlone) /\ [][C5_MatcherKept]_vars

\* two different messages were normalized by a process whose configuration
\* file was edited after the matcher had been built
C5_Witness ==
    /\ Len(inbox) = 2
    /\ inbox[1] # inbox[2]
    /\ records[1].exc = "" /\ records[2].exc = ""
    /\ maven_projects.pattern_built
    /\ config_keys # maven_projects.config

\* C6: for every body and every threshold, is_mostly_quoted is true exactly
\* when the quote percentage is strictly greater than the threshold (4 quoted
\* lines of 5 with threshold 0.8 is not mostly quoted), and the record parse
\* builds carries the answer of is_mostly_quoted on its body.
C6_StrictlyAboveThreshold ==
    /\ "is_mostly_quoted" \in done =>
          (mostly <=> analysis.quote_percentage[1] * quote_threshold[2]
                        > quote_threshold[1] * analysis.quote_percentage[2])
    /\ records[1].exc = "" =>
          /\ records[1].record.is_mostly_quoted
               = is_mostly_quoted(records[1].record.body_full, email_parser.quote_threshold)
          /\ records[1].record.is_mostly_quoted
               <=> records[1].record.quote_percentage[1] * email_parser.quote_threshold[2]
                     > email_parser.quote_threshold[1] * records[1].record.quote_percentage[2]

\* four quoted lines of five were judged against the threshold 0.8
C6_Witness ==
    /\ "is_mostly_quoted" \in done
    /\ quote_threshold = DefaultThreshold
    /\ analysis.quoted_lines = 4 /\ analysis.total_lines = 5
    /\ ~mostly
    /\ records[1].exc = "" /\ ~records[1].record.is_mostly_quoted

\* C7: analyze returns quote_percentage = quoted_lines / total_lines, a plain
\* ratio between 0 and 1 with quoted_lines never above total_lines, and 0 for
\* a text without lines.
C7_PlainRatio ==
    "analyze" \in done =>
        /\ analysis.total_lines = Len(SplitLines(body_text))
        /\ analysis.quoted_lines <= analysis.total_lines
        /\ analysis.quote_percentage[2] > 0
        /\ analysis.quote_percentage[1] >= 0
        /\ analysis.quote_percentage[1] <= analysis.quote_percentage[2]
        /\ analysis.quote_percentage[1] * analysis.total_lines
             = analysis.quoted_lines * analysis.quote_percentage[2]
        /\ body_text = <<>> => analysis.quote_percentage[1] = 0

\* a text some of whose lines, not all, are quoted has been analyzed
C7_Witness ==
    /\ "analyze" \in done
    /\ 0 < analysis.quoted_lines
    /\ analysis.quoted_lines < analysis.total_lines

RealContent == <<"r", "e", "a", "l", " ", "c", "o", "n", "t", "e", "n", "t">>

\* C8: for the body "> quoted line\nreal content\n" analyze returns the
\* effective content "real content", quoted_lines = 1, total_lines = 2 and
\* quote_percentage = 0.5.
C8_Scenario ==
    (body_text = ScenarioBody /\ "analyze" \in done) =>
        /\ analysis.body_effective = RealContent
        /\ analysis.quoted_lines = 1
        /\ analysis.total_lines = 2
        /\ 2 * analysis.quote_percentage[1] = analysis.quote_percentage[2]

\* a is obtained from b by deleting characters
RECURSIVE IsSubsequence(_, _)
IsSubsequence(a, b) ==
    IF a = <<>> THEN TRUE
    ELSE IF Len(a) > Len(b) THEN FALSE
    ELSE IF Head(a) = Head(b) THEN IsSubsequence(Tail(a), Tail(b))
    ELSE IsSubsequence(a, Tail(b))

\* C9: body_effective is a reduction of body_full: its characters are
\* characters of body_full in their original order, so it is never longer.
C9_EffectiveIsReduction ==
    /\ "analyze" \in done =>
          /\ IsSubsequence(analysis.body_effective, body_text)
          /\ Len(analysis.body_effective) <= Len(body_text)
    /\ records[1].exc = "" =>
          /\ IsSubsequence(records[1].record.body_effective, records[1].record.body_full)
          /\ Len(records[1].record.body_effective) <= Len(records[1].record.body_full)

\* a body of several lines, one of them quoted, lost some of its characters,
\* not all
C9_Witness ==
    /\ "analyze" \in done
    /\ records[1].exc = ""
    /\ records[1].record.body_full = body_text
    /\ analysis.total_lines >= 2
    /\ analysis.body_effective # <<>>
    /\ Len(analysis.body_effective) < Len(body_text)
    /\ analysis.quoted_lines >= 1

\* C10: extract_effective_content applied to its own output returns that
\* output.
C10_Idempotent ==
    "extract_again" \in done => effective_again = analysis.body_effective

\* the line, after leading whitespace, begins with '>' or '|'
BeginsWithQuoteMark(line) ==
    \E i \in 1..Len(line) :
        /\ line[i] \in {">", "|"}
        /\ \A k \in 1..(i - 1) : IsSpace(line[k])

\* 'wrote:' in any letter case stands at position d of the line
WroteAt(line, d) ==
    /\ d + 5 <= Len(line)
    /\ \A k \in 1..6 : Lower(line[d + k - 1]) = Wrote[k]

\* the line begins with 'On ... wrote:'
BeginsOnWrote(line) ==
    /\ Len(line) >= 2 /\ Lower(line[1]) = "o" /\ Lower(line[2]) = "n"
    /\ \E d \in 6..Len(line) :
          /\ WroteAt(line, d)
          /\ IsSpace(line[3]) /\ IsSpace(line[d - 1])
          /\ \E k \in 4..(d - 2) : TRUE

\* the line ends in '... wrote:' (trailing whitespace aside)
EndsInWrote(line) ==
    LET l == RStrip(line)
        d == Len(l) - 5
    IN  d >= 3 /\ WroteAt(l, d) /\ IsSpace(l[d - 1])

\* the line echoes a From: or Sent: header
HeaderEcho(line) ==
    /\ Len(line) >= 6
    /\ \/ \A k \in 1..5 : Lower(line[k]) = <<"f", "r", "o", "m", ":">>[k]
       \/ \A k \in 1..5 : Lower(line[k]) = <<"s", "e", "n", "t", ":">>[k]

\* C11: is_quote_line is true exactly for the lines that are not blank and
\* either begin, after leading whitespace, with '>' or '|', or begin with
\* 'On ... wrote:', or end in '... wrote:', or echo a From: or Sent: header;
\* a blank line is never quoted and no other line is.
C11_QuoteLineExactly ==
    called = "is_quote_line" =>
        (call_out <=>
            /\ \E i \in 1..Len(call_arg) : ~IsSpace(call_arg[i])
            /\ \/ BeginsWithQuoteMark(call_arg)
               \/ BeginsOnWrote(call_arg)
               \/ EndsInWrote(call_arg)
               \/ HeaderEcho(call_arg))

\* the positions of text at which a line starts
LineStartsOf(text) == {p \in 1..Len(text) : p = 1 \/ text[p - 1] = "\n"}

\* the line of text that starts at p, without its newline
LineFrom(text, p) ==
    LET nl == {j \in p..Len(text) : text[j] = "\n"}
    IN  SubSeq(text, p, IF nl = {} THEN Len(text) ELSE Min(nl) - 1)

\* word, in any letter case, begins the line
LineBeginsWith(line, word) ==
    /\ Len(line) >= Len(word)
    /\ \A k \in 1..Len(word) : Lower(line[k]) = word[k]

\* the line is a signature marker: '--', three or more underscores (trailing
\* whitespace aside), or a line beginning with a closing formula
IsMarkerLine(line) ==
    LET l == RStrip(line)
    IN  \/ l = <<"-", "-">>
        \/ Len(l) >= 3 /\ \A k \in 1..Len(l) : l[k] = "_"
        \/ LineBeginsWith(line, <<"b", "e", "s", "t", " ", "r", "e", "g", "a", "r", "d", "s">>)
        \/ LineBeginsWith(line, <<"r", "e", "g", "a", "r", "d", "s">>)
        \/ LineBeginsWith(line, <<"c", "h", "e", "e", "r", "s">>)
        \/ LineBeginsWith(line, <<"t", "h", "a", "n", "k", "s">>)

MarkerStarts(text) == {p \in LineStartsOf(text) : IsMarkerLine(LineFrom(text, p))}

NoDuplicates(l) == \A i, j \in 1..Len(l) : l[i] = l[j] => i = j

\* s[p..e] is a whole word made of one of the keys, a hyphen and digits
JiraTokenAt(keys, s, p, e) ==
    /\ WordBoundary(s, p)
    /\ WordBoundary(s, e + 1)
    /\ \E k \in 1..Len(keys) :
          /\ StartsWithAt(s, p, keys[k] \o <<"-">>)
          /\ p + Len(keys[k]) + 1 <= e
          /\ \A i \in (p + Len(keys[k]) + 1)..e : IsDigit(s[i])

\* where the tokens that read v begin
JiraTokenStarts(keys, s, v) ==
    {p \in 1..Len(s) : p + Len(v) - 1 <= Len(s)
                        /\ SubSeq(s, p, p + Len(v) - 1) = v
                        /\ JiraTokenAt(keys, s, p, p + Len(v) - 1)}

\* C13: extract_jira_references returns, in the order of their first occurrence
\* and without duplicates, exactly the whole-word tokens of the text made of a
\* configured project key, a hyphen and digits; no token with another key is
\* ever returned, whatever the configured keys are
C13_ConfiguredKeysOnly ==
    called = "extract" =>
        LET refs == call_out.jira_references
        IN  /\ NoDuplicates(refs)
            /\ \A i \in 1..Len(refs) : JiraTokenStarts(config_keys, call_arg, refs[i]) # {}
            /\ \A p \in 1..Len(call_arg) : \A e \in p..Len(call_arg) :
                  JiraTokenAt(config_keys, call_arg, p, e)
                      => \E i \in 1..Len(refs) : refs[i] = SubSeq(call_arg, p, e)
            /\ \A i, j \in 1..Len(refs) :
                  i < j => Min(JiraTokenStarts(config_keys, call_arg, refs[i]))
                             < Min(JiraTokenStarts(config_keys, call_arg, refs[j]))

\* v is read in s right after a '#'
FollowsHash(s, v) ==
    \E p \in 1..Len(s) :
        /\ s[p] = "#"
        /\ p + Len(v) <= Len(s)
        /\ SubSeq(s, p + 1, p + Len(v)) = v

\* C14: extract_github_pr_references returns a collection without duplicate
\* values in which every value is a non-empty string of decimal digits that
\* follows a '#' in the text; a '#' followed by something that is no digit
\* contributes nothing
C14_PRDigitsAfterHash ==
    called = "extract" =>
        LET prs == call_out.github_pr_references
        IN  /\ NoDuplicates(prs)
            /\ \A i \in 1..Len(prs) : IsDigits(prs[i]) /\ FollowsHash(call_arg, prs[i])
            /\ (\A p \in 1..Len(call_arg) :
                    call_arg[p] = "#" => ~(p < Len(call_arg) /\ IsDigit(call_arg[p + 1])))
                   => prs = <<>>

\* a pull request is returned for a text in which another '#' is followed by
\* no digit
C14_Witness ==
    /\ called = "extract"
    /\ Len(call_out.github_pr_references) = 1
    /\ \E p \in 1..Len(call_arg) :
          call_arg[p] = "#" /\ (p = Len(call_arg) \/ ~IsDigit(call_arg[p + 1]))

\* s[p..e] is a whole word of 7 to 40 hexadecimal characters
HexWordAt(s, p, e) ==
    /\ e - p + 1 >= 7
    /\ e - p + 1 <= 40
    /\ \A i \in p..e : IsHex(s[i])
    /\ p = 1 \/ ~IsWordChar(s[p - 1])
    /\ e = Len(s) \/ ~IsWordChar(s[e + 1])

\* a run of one character only
AllOf(v, c) == \A i \in 1..Len(v) : Lower(v[i]) = c

\* C15: every value returned by extract_github_commit_references is a distinct
\* whole-word run of 7 to 40 hexadecimal characters of the text, and none of
\* them is a run of zeros only, a run of the letter f only, or deadbeef in any
\* case
C15_NoKnownConstants ==
    called = "extract" =>
        LET commits == call_out.github_commit_references
        IN  /\ NoDuplicates(commits)
            /\ \A i \in 1..Len(commits) :
                  /\ \E p \in 1..Len(call_arg) :
                        /\ p + Len(commits[i]) - 1 <= Len(call_arg)
                        /\ SubSeq(call_arg, p, p + Len(commits[i]) - 1) = commits[i]
                        /\ HexWordAt(call_arg, p, p + Len(commits[i]) - 1)
                  /\ ~AllOf(commits[i], "0")
                  /\ ~AllOf(commits[i], "f")
                  /\ LowerStr(commits[i]) # <<"d", "e", "a", "d", "b", "e", "e", "f">>

\* the matches of the version pattern in the text
VersionMatches(s) ==
    LET ends  == [p \in 1..Len(s) |-> VERSION_PATTERN(s, p)]
        found == FindAll(ends, s, 1)
    IN  {SubSeq(s, found[k][1], found[k][2]) : k \in 1..Len(found)}

\* the first dot-component of a version, as a number
FirstNumber(v) == IntOf(SubSeq(v, 1, Min({i \in 1..Len(v) : v[i] = "."}) - 1))

HoldsMarker(s, marker) ==
    \E p \in 1..Len(s) :
        /\ p + Len(marker) - 1 <= Len(s)
        /\ LowerStr(SubSeq(s, p, p + Len(marker) - 1)) = marker

\* C17: has_vote is true exactly when the text contains [VOTE] or [RESULT] in
\* any case, whether or not the text holds a vote value
C17_HasVoteIffMarker ==
    called = "extract" =>
        (call_out.has_vote <=>
            \/ HoldsMarker(call_arg, <<"[", "v", "o", "t", "e", "]">>)
            \/ HoldsMarker(call_arg, <<"[", "r", "e", "s", "u", "l", "t", "]">>))

\* a marker in lower case is found in a text without vote value
C17_Witness ==
    /\ called = "extract"
    /\ call_out.has_vote
    /\ call_out.vote_value = None
    /\ \E p \in 1..Len(call_arg) : call_arg[p] = "r"

\* where the vote tokens standing alone begin: one of +1, -1, +0, -0 after the
\* start of a line or whitespace and before whitespace or the end of a line
StandaloneVotes(s) ==
    {t \in 1..(Len(s) - 1) :
        /\ SubSeq(s, t, t + 1) \in {<<"+", "1">>, <<"-", "1">>, <<"+", "0">>, <<"-", "0">>}
        /\ (t = 1 \/ s[t - 1] = "\n" \/ IsSpace(s[t - 1]))
        /\ (t + 1 = Len(s) \/ s[t + 2] = "\n" \/ IsSpace(s[t + 2]))}

\* C18: vote_value is the first vote token of the text that stands alone, null
\* when there is none, whether or not the text holds a vote marker
C18_FirstStandaloneVote ==
    called = "extract" =>
        call_out.vote_value =
            IF StandaloneVotes(call_arg) = {} THEN None
            ELSE SubSeq(call_arg, Min(StandaloneVotes(call_arg)),
                        Min(StandaloneVotes(call_arg)) + 1)

\* the first of two vote tokens is returned for a text without marker
C18_Witness ==
    /\ called = "extract"
    /\ ~call_out.has_vote
    /\ Cardinality(StandaloneVotes(call_arg)) = 2
    /\ call_out.vote_value = <<"-", "0">>

\* the address a List-Post value yields: the text between '<mailto:' and the
\* bracket that closes it, null when there is none
AddressOfListPost(value) ==
    LET v     == IF value = Absent THEN <<>> ELSE Strip(value)
        opens == {p \in 1..Len(v) :
                     StartsWithAt(v, p, <<"<", "m", "a", "i", "l", "t", "o", ":">>)}
        from  == Min(opens) + 8
        ends  == {e \in from..Len(v) : v[e] = ">"}
    IN  IF opens = {} \/ ends = {} \/ Min(ends) = from THEN None
        ELSE SubSeq(v, from, Min(ends) - 1)

\* the address a List-Id value yields: name.domain between angle brackets with
\* the first dot replaced by '@', null when there is none
AddressOfListId(value) ==
    LET v     == IF value = Absent THEN <<>> ELSE Strip(value)
        opens == {p \in 1..Len(v) : v[p] = "<"}
        from  == Min(opens) + 1
        ends  == {e \in from..Len(v) : v[e] = ">"}
        dots  == {d \in from..(Min(ends) - 1) : v[d] = "."}
    IN  IF opens = {} \/ ends = {} \/ dots = {} THEN None
        ELSE SubSeq(v, from, Min(dots) - 1) \o <<"@">> \o SubSeq(v, Min(dots) + 1, Min(ends) - 1)

\* C19: list_address is the address the List-Post header yields when it
\* yields one, otherwise the address derived from the List-Id header; it is
\* null only when neither header yields one: a List-Post header that yields
\* nothing never prevents the List-Id fallback
C19_ListIdFallback ==
    \A i \in DOMAIN inbox :
        records[i].exc = "" =>
            records[i].record.list_address =
                IF AddressOfListPost(inbox[i].headers["List-Post"]) # None
                THEN AddressOfListPost(inbox[i].headers["List-Post"])
                ELSE AddressOfListId(inbox[i].headers["List-Id"])

\* C20: has_attachment is true if and only if some part of the message (the
\* message itself when it is single-part) carries an attachment disposition or
\* has a content type outside text/plain, text/html, multipart/alternative and
\* multipart/mixed
C20_AttachmentIffSomePart ==
    \A i \in DOMAIN inbox :
        records[i].exc = "" =>
            (records[i].record.has_attachment <=>
                \E k \in 1..Len(inbox[i].parts) :
                    \/ inbox[i].parts[k].disposition = "attachment"
                    \/ inbox[i].parts[k].content_type \notin
                          {"text/plain", "text/html", "multipart/alternative",
                           "multipart/mixed"})

\* C24: no line of the effective body returned by extract_effective_content
\* is classified as quoted by is_quote_line, whatever the body text is
C24_NoQuotedLineKept ==
    "analyze" \in done =>
        \A k \in 1..Len(SplitLines(analysis.body_effective)) :
            ~is_quote_line(SplitLines(analysis.body_effective)[k])

\* the documents of the bulk_index calls made so far, in the order submitted
Submitted == Flatten([k \in 1..Len(bulk_calls) |-> bulk_calls[k].documents])

\* the batch entries of the records yielded so far, in the order yielded
EntriesOfYielded ==
    [i \in 1..Len(yielded) |->
        [_id |-> yielded[i].message_id,
         _source |-> _parsed_email_to_doc(yielded[i], ListName, run)]]

\* C25: index_mbox_file submits every record the batch driver yields to
\* bulk_index exactly once, under the record's message_id and in mailbox
\* order, in batches of at most batch_size documents: a batch is submitted as
\* soon as it holds batch_size documents, and the last, partial batch is
\* submitted before the function returns
C25_EveryRecordSubmittedOnce ==
    /\ pc = "iterate" => Submitted \o batch = EntriesOfYielded
    /\ pc = "iterate" => Len(batch) < batch_size
    /\ pc = "iterate" => \A k \in 1..Len(bulk_calls) :
                            Len(bulk_calls[k].documents) = batch_size
    /\ pc = "returned" =>
          /\ Submitted = EntriesOfYielded
          /\ \A k \in 1..Len(bulk_calls) :
                /\ Len(bulk_calls[k].documents) >= 1
                /\ Len(bulk_calls[k].documents) <= batch_size
                /\ k < Len(bulk_calls) => Len(bulk_calls[k].documents) = batch_size

\* a mailbox of three records was submitted in a full batch and a partial one
C25_Witness ==
    /\ pc = "returned"
    /\ Len(yielded) = 3
    /\ Len(bulk_calls) = 2
    /\ Len(bulk_calls[2].documents) = 1

\* what the first n bulk_index calls add to stats['indexed']
RECURSIVE IndexedBy(_)
IndexedBy(n) ==
    IF n = 0 THEN 0
    ELSE IndexedBy(n - 1)
         + (IF bulk_calls[n].result.exc # "" THEN 0 ELSE bulk_calls[n].result.success)

\* what the first n bulk_index calls add to stats['errors']: the size of the
\* batch for a call that raised, the number of errors reported otherwise
RECURSIVE ErrorsBy(_)
ErrorsBy(n) ==
    IF n = 0 THEN 0
    ELSE ErrorsBy(n - 1)
         + (IF bulk_calls[n].result.exc # "" THEN Len(bulk_calls[n].documents)
            ELSE Cardinality(bulk_calls[n].result.errors))

\* C26: when index_mbox_file returns, stats['indexed'] + stats['errors'] is
\* the number of records the batch driver yielded (every bulk_index call that
\* returns reporting success + len(errors) equal to the size of its batch); a
\* bulk_index call that raises adds the size of its batch to errors, its
\* batch is not submitted again and the batches after it are still submitted
C26_StatsAccountForEveryRecord ==
    /\ \A k \in 1..Len(bulk_calls) :
          bulk_calls[k].result.exc = "" =>
              bulk_calls[k].result.success + Cardinality(bulk_calls[k].result.errors)
                  = Len(bulk_calls[k].documents)
    /\ stats.indexed = IndexedBy(Len(bulk_calls))
    /\ stats.errors = ErrorsBy(Len(bulk_calls))
    /\ pc = "returned" =>
          /\ stats.indexed + stats.errors = Len(yielded)
          /\ Len(Submitted) = Len(yielded)

\* index_mbox_file returned after two bulk_index calls of which the first
\* raised
C26_Witness ==
    /\ pc = "returned"
    /\ Len(bulk_calls) = 2
    /\ bulk_calls[1].result.exc # ""
    /\ stats.errors = Len(yielded)
    /\ Len(yielded) >= 2

\* C27: indexing the same mailbox file again, in a new process, does not
\* change the set of document ids of the index: every message maps to the
\* same document id on every run, so after any run every document of the index
\* is stored under the id this run gives to one of the messages
C27_ReindexKeepsDocumentIds ==
    pc = "returned" =>
        \A id \in DOMAIN index_docs :
            \E i \in DOMAIN inbox :
                records[i].exc = "" /\ records[i].record.message_id = id

\* the document id of the message a tool was called for: its Message-ID in
\* angle brackets
DocumentIdOf(arg) == <<"<">> \o StripChars(arg, {"<", ">"}) \o <<">">>

\* C21: for every message stored in the index under its Message-ID,
\* get_message called with that Message-ID, with or without the angle
\* brackets, returns a text that starts with '=== Email Message ===' and
\* contains the message's subject, sender and body; it answers 'Message not
\* found' only for an identifier that is not stored.
C21_GetMessageReturnsStoredMessage ==
    [][(Len(calls') > Len(calls) /\ calls'[Len(calls')].fn = "get_message") =>
        LET c  == calls'[Len(calls')]
            id == DocumentIdOf(c.arg)
        IN  /\ id \in DOMAIN index_docs =>
                /\ StartsWith(c.out, EmailMessageHeading)
                /\ Contains(c.out, index_docs[id].subject)
                /\ Contains(c.out, index_docs[id].from_address)
                /\ Contains(c.out, index_docs[id].body_effective)
            /\ StartsWith(c.out, MessageNotFound) => id \notin DOMAIN index_docs]_vars

C23_ResolvedMidIsCached ==
    [][(Len(calls') > Len(calls) /\ calls'[Len(calls')].fn = "resolve_url") =>
        LET c  == calls'[Len(calls')]
            id == DocumentIdOf(c.arg)
            found == c.lookups = 1 /\ c.out # None
            earlier == {i \in DOMAIN calls :
                           /\ calls[i].fn = "resolve_url"
                           /\ DocumentIdOf(calls[i].arg) = id
                           /\ calls[i].lookups = 1
                           /\ calls[i].out # None}
        IN  /\ found =>
                /\ Cardinality({k \in (Len(requests) + 1)..Len(requests') :
                                   requests'[k].op = "update"}) = 1
                /\ id \in DOMAIN index_docs'
                /\ "archive_mid" \in DOMAIN index_docs'[id]
                /\ c.out = PONYMAIL_THREAD_BASE \o <<"/">> \o index_docs'[id].archive_mid
            /\ \A i \in earlier : c.out = calls[i].out /\ c.lookups = 0]_vars

\* C29: every ElasticsearchClient operation invoked before connect() or after
\* close() raises RuntimeError and issues no request to the backend; requests
\* reach the backend only between a connect() and the following close().
C29_NotConnectedRaises ==
    /\ \A k \in DOMAIN calls :
          (~calls[k].connected \/ calls[k].closed) =>
              calls[k].exc = "RuntimeError" /\ ~calls[k].sent
    /\ \A t \in DOMAIN tasks :
          (~tasks[t].connected \/ tasks[t].closed) =>
              tasks[t].pc = "raised" /\ tasks[t].exc = "RuntimeError"
    /\ \A k \in DOMAIN requests : ~requests[k].closed

\* C30: create_index creates the index only if it does not exist and returns
\* True exactly when this call created it, False when it already existed; for
\* any interleaving of concurrent create_index calls at most one creation
\* request is issued and no call fails because another call created the index
\* first.
C30_CreateIndexOnce ==
    /\ \A t \in DOMAIN tasks :
          /\ tasks[t].pc = "returned" => tasks[t].value = tasks[t].created
          /\ (tasks[t].pc = "returned" /\ tasks[t].exists) => ~tasks[t].value
          /\ tasks[t].exc # "BadRequestError"
    /\ Cardinality({k \in DOMAIN requests : requests[k].op = "indices.create"}) <= 1

\* C28: in index_directory called with create_index=True, index creation is
\* requested only while the first file is processed; no document of any file
\* is submitted to bulk_index unless an earlier create_index call has
\* completed without raising; a failure while processing one file adds one
\* error, and the remaining files are still processed.
C28_IndexCreatedBeforeDocuments ==
    [][directory.create_index =>
        /\ Len(tasks') > Len(tasks) => directory.at = 1
        /\ Len(bulk_calls') > Len(bulk_calls) =>
              \E t \in DOMAIN tasks : tasks[t].pc = "returned"
        /\ (directory.pc = "file" /\ directory'.pc = "loop" /\ pc = "raised") =>
              directory'.total_stats.errors = directory.total_stats.errors + 1
        /\ (directory.pc = "loop" /\ directory'.pc = "returned") =>
              directory.at = Len(directory.mbox_files)]_vars

=============================================================================
